---- MODULE Spec2Model ----
(***************************************************************************)
(* Model of the ffmpeg-processor conversion pipeline:                      *)
(*   - ConversionQueue (work pool)    src/src/cli/tui/component/io-panel.tsx *)
(*   - converter (encoder driver)     src/unnamed/part_003                 *)
(*   - processor-state (controller)   src/src/cli/tui/component/io-panel.tsx *)
(*   - SIGINT handling                src/src/cli/tui/app.tsx              *)
(* Every handler of the program runs to completion on the event loop, so   *)
(* each handler is one action.  Handlers are written as operators on a     *)
(* record s holding the whole program state; an action commits the record  *)
(* its handler returns.                                                    *)
(***************************************************************************)
EXTENDS Integers, Sequences, FiniteSets, TLC

\* ---------------------------------------------------------------- bounds
\* Number of files the walker can deliver in one run.
MaxJobs == 2
\* Largest concurrency option tried.
MaxConcurrency == 2
\* Number of progress chunks the children emit in one run.
MaxProgress == 1
\* Number of shutdown requests / interrupts issued in one run.
MaxShutdownRequests == 2
\* Number of pause() calls issued in one run.
MaxPauses == 1
\* Number of directories of the input tree, the root included.
MaxDirs == 2
\* Largest scanners option tried.
MaxScanners == 2
\* Number of readdir / stat failures in one walk.
MaxFailures == 1
\* Number of times the program is run again on the same root.
MaxReruns == 1
\* Largest duration / current time, in ticks, a chunk of stderr carries.
MaxTime == 3
\* Number of stderr chunks the children emit in a run of the encoder.
MaxChunks == 2
MaxKills == 2
MaxLedgerCalls == 3

\* ------------------------------------------------------ program constants
DefaultConcurrency == 10
ConcurrencyLimit == 25
DefaultDirConcurrency == 5
DirConcurrencyLimit == 20
FileConcurrency == 10

\* The ids of the jobs of a pool: one per file of the tree, and one more
\* for a pool that is handed a further file.
JobId == 1..(MaxJobs + 1)

VARIABLES
    \* ConversionQueue fields
    pendingJobs, activeJobs, totalAdded, completedCount, failedCount,
    cancelledCount, concurrency, isPaused, isShuttingDown,
    isImmediateShutdown, isStarted, isScanComplete, queuePromise,
    \* ConversionJob.status of every job created so far
    jobStatus,
    \* converter module: the two registries and every child process
    activeProcesses, activeOutputPaths, proc,
    \* per job, the observer callbacks emitted for it, in emission order;
    \* and every complete() call
    cb, completions,
    \* which counters each job was added to; jobs ended by a shutdown request
    counted, shutdownEnded,
    \* processor-state (controller) and app.tsx
    appStatus, uiShuttingDown, ctrlCCount, queue, scanning, dryRun,
    shutdownHandler, exitTimer, exited,
    \* requests issued so far (bounds the run)
    nShutdownRequests, nPauses,
    \* ConversionJob.inputPath and ConversionJob.outputSize of every job
    jobFile, outputSize,
    \* the conversions table of the ledger, keyed by video_path
    conversions,
    \* per job, the ledger writes, the spawn, the child's end and the
    \* completion callback, in the order they happened
    ops,
    \* the input tree: the .mp3 and .srt companions on disk, and whether
    \* the first two videos have the same basename
    mp3Files, srtFiles, sameBase,
    \* scanDirectoryStreamParallel: its options, its local variables
    \* (walkStats is its stats object), the directory reads and file
    \* batches in flight, the position of the generator, every event
    \* pushed by a worker and every event handed to the consumer
    recursive, dirConcurrency, directoryQueue, eventBuffer, activeWorkers,
    scanComplete, eventResolver, walkStats, workers, generator, emitted,
    delivered,
    \* the controller's scanStats signal (empty = null)
    scanStats,
    \* readdir / stat failures injected so far (bounds the run)
    nFailures,
    \* the earlier runs of the program on this root: what each ended with
    runs,
    \* the controller's error signal: every message it was set to, in
    \* order; and its handle of the ledger ("null" until it is opened)
    errorMsgs, dbHandle,
    \* executeConversion, per job: the locals duration (empty until
    \* parsed) and stderrOutput (the error patterns captured so far), the
    \* arguments (progress, currentTime) of every call of onProgress,
    \* job.error and the error of the resolved result
    duration, stderrOutput, progress, jobError, resultError,
    \* ConversionJob.progress of every job
    jobProgress,
    \* stderr chunks delivered so far (bounds the run)
    nChunks,
    \* the target paths whose unlink throws; the cleanupOutputs argument of
    \* every direct call of killAllJobs, and what the last one returned
    unlinkFails, killCalls, deletedFiles,
    \* the callbacks the last handler emitted, in order, after the call
    \* of resume() or cancelJob(j) when that is what it handled, and
    \* before the value cancelJob returned
    handlerLog,
    \* per job, how often an entry of activeProcesses was deleted, an entry
    \* of activeOutputPaths was deleted, and its output file was unlinked;
    \* whether the close handler, and whether killJob, found no child
    \* registered
    effects,
    \* the calls made on the ledger directly, with their arguments
    ledgerCalls

vars == <<pendingJobs, activeJobs, totalAdded, completedCount, failedCount,
          cancelledCount, concurrency, isPaused, isShuttingDown,
          isImmediateShutdown, isStarted, isScanComplete, queuePromise,
          jobStatus, activeProcesses, activeOutputPaths, proc, cb,
          completions, counted, shutdownEnded, appStatus, uiShuttingDown,
          ctrlCCount, queue, scanning, dryRun, shutdownHandler, exitTimer,
          exited, nShutdownRequests, nPauses, jobFile, outputSize,
          conversions, ops, mp3Files, srtFiles, sameBase, recursive,
          dirConcurrency, directoryQueue, eventBuffer, activeWorkers,
          scanComplete, eventResolver, walkStats, workers, generator,
          emitted, delivered, scanStats, nFailures, runs, errorMsgs,
          dbHandle, duration, stderrOutput, progress, jobError, resultError,
          jobProgress,
          nChunks, unlinkFails, killCalls, deletedFiles, handlerLog,
          effects, ledgerCalls>>

\* The whole program state as one record, as a handler finds it: it has
\* emitted nothing yet.
St ==
    [pendingJobs |-> pendingJobs, activeJobs |-> activeJobs,
     totalAdded |-> totalAdded, completedCount |-> completedCount,
     failedCount |-> failedCount, cancelledCount |-> cancelledCount,
     concurrency |-> concurrency, isPaused |-> isPaused,
     isShuttingDown |-> isShuttingDown,
     isImmediateShutdown |-> isImmediateShutdown, isStarted |-> isStarted,
     isScanComplete |-> isScanComplete, queuePromise |-> queuePromise,
     jobStatus |-> jobStatus, activeProcesses |-> activeProcesses,
     activeOutputPaths |-> activeOutputPaths, proc |-> proc, cb |-> cb,
     completions |-> completions, counted |-> counted,
     shutdownEnded |-> shutdownEnded, appStatus |-> appStatus,
     uiShuttingDown |-> uiShuttingDown, ctrlCCount |-> ctrlCCount,
     queue |-> queue, scanning |-> scanning, dryRun |-> dryRun,
     shutdownHandler |-> shutdownHandler, exitTimer |-> exitTimer,
     exited |-> exited, nShutdownRequests |-> nShutdownRequests,
     nPauses |-> nPauses, jobFile |-> jobFile, outputSize |-> outputSize,
     conversions |-> conversions, ops |-> ops, mp3Files |-> mp3Files,
     srtFiles |-> srtFiles, sameBase |-> sameBase, recursive |-> recursive,
     dirConcurrency |-> dirConcurrency, directoryQueue |-> directoryQueue,
     eventBuffer |-> eventBuffer, activeWorkers |-> activeWorkers,
     scanComplete |-> scanComplete, eventResolver |-> eventResolver,
     walkStats |-> walkStats, workers |-> workers, generator |-> generator,
     emitted |-> emitted, delivered |-> delivered, scanStats |-> scanStats,
     nFailures |-> nFailures, runs |-> runs, errorMsgs |-> errorMsgs,
     dbHandle |-> dbHandle, duration |-> duration,
     stderrOutput |-> stderrOutput, progress |-> progress,
     jobError |-> jobError, resultError |-> resultError,
     jobProgress |-> jobProgress,
     nChunks |-> nChunks, unlinkFails |-> unlinkFails,
     killCalls |-> killCalls, deletedFiles |-> deletedFiles,
     handlerLog |-> <<>>, effects |-> effects,
     ledgerCalls |-> ledgerCalls]

\* The handler's result is computed once and becomes the next state.
Commit(s) ==
    \E r \in {s} :
        /\ pendingJobs' = r.pendingJobs
        /\ activeJobs' = r.activeJobs
        /\ totalAdded' = r.totalAdded
        /\ completedCount' = r.completedCount
        /\ failedCount' = r.failedCount
        /\ cancelledCount' = r.cancelledCount
        /\ concurrency' = r.concurrency
        /\ isPaused' = r.isPaused
        /\ isShuttingDown' = r.isShuttingDown
        /\ isImmediateShutdown' = r.isImmediateShutdown
        /\ isStarted' = r.isStarted
        /\ isScanComplete' = r.isScanComplete
        /\ queuePromise' = r.queuePromise
        /\ jobStatus' = r.jobStatus
        /\ activeProcesses' = r.activeProcesses
        /\ activeOutputPaths' = r.activeOutputPaths
        /\ proc' = r.proc
        /\ cb' = r.cb
        /\ completions' = r.completions
        /\ counted' = r.counted
        /\ shutdownEnded' = r.shutdownEnded
        /\ appStatus' = r.appStatus
        /\ uiShuttingDown' = r.uiShuttingDown
        /\ ctrlCCount' = r.ctrlCCount
        /\ queue' = r.queue
        /\ scanning' = r.scanning
        /\ dryRun' = r.dryRun
        /\ shutdownHandler' = r.shutdownHandler
        /\ exitTimer' = r.exitTimer
        /\ exited' = r.exited
        /\ nShutdownRequests' = r.nShutdownRequests
        /\ nPauses' = r.nPauses
        /\ jobFile' = r.jobFile
        /\ outputSize' = r.outputSize
        /\ conversions' = r.conversions
        /\ ops' = r.ops
        /\ mp3Files' = r.mp3Files
        /\ srtFiles' = r.srtFiles
        /\ sameBase' = r.sameBase
        /\ recursive' = r.recursive
        /\ dirConcurrency' = r.dirConcurrency
        /\ directoryQueue' = r.directoryQueue
        /\ eventBuffer' = r.eventBuffer
        /\ activeWorkers' = r.activeWorkers
        /\ scanComplete' = r.scanComplete
        /\ eventResolver' = r.eventResolver
        /\ walkStats' = r.walkStats
        /\ workers' = r.workers
        /\ generator' = r.generator
        /\ emitted' = r.emitted
        /\ delivered' = r.delivered
        /\ scanStats' = r.scanStats
        /\ nFailures' = r.nFailures
        /\ runs' = r.runs
        /\ errorMsgs' = r.errorMsgs
        /\ dbHandle' = r.dbHandle
        /\ duration' = r.duration
        /\ stderrOutput' = r.stderrOutput
        /\ progress' = r.progress
        /\ jobError' = r.jobError
        /\ jobProgress' = r.jobProgress
        /\ resultError' = r.resultError
        /\ unlinkFails' = r.unlinkFails
        /\ killCalls' = r.killCalls
        /\ deletedFiles' = r.deletedFiles
        /\ handlerLog' = r.handlerLog
        /\ effects' = r.effects
        /\ ledgerCalls' = r.ledgerCalls
        /\ nChunks' = r.nChunks

\* ------------------------------------------------------------ helpers
Min(a, b) == IF a < b THEN a ELSE b
Max(a, b) == IF a > b THEN a ELSE b

\* F applied to the value of x, with x evaluated once.
Once(F(_), x) == CHOOSE out \in {F(r) : r \in {x}} : TRUE

\* A callback of the observer invoked for job j.
Emit(s, name, j) ==
    [s EXCEPT !.cb[j] = Append(@, name),
              !.handlerLog = Append(@, <<name, j>>),
              !.ops[j] = IF name = "onJobComplete" THEN Append(@, name) ELSE @]

\* Positions at which callback name occurs in a job's callback sequence.
Pos(l, name) == {i \in 1..Len(l) : l[i] = name}

\* constructor: Math.min(Math.max(options.concurrency || 10, 1), 25)
ClampConcurrency(c) ==
    Min(Max(IF c = 0 THEN DefaultConcurrency ELSE c, 1), ConcurrencyLimit)

\* notifyStateChange -> callbacks.onStateChange(getState()):
\* the controller copies the pool's isShuttingDown into its own signal.
NotifyStateChange(s) == [s EXCEPT !.uiShuttingDown = s.isShuttingDown]

\* setError(message) of the controller, for a message that is not null
SetError(s, message) == [s EXCEPT !.errorMsgs = Append(@, message)]

\* getSummary
GetSummary(s) ==
    [total |-> s.totalAdded, completed |-> s.completedCount,
     failed |-> s.failedCount,
     cancelled |-> s.cancelledCount + Len(s.pendingJobs)]

\* callbacks.onQueueComplete of the controller
OnQueueComplete(s) ==
    [s EXCEPT !.appStatus = IF s.uiShuttingDown THEN "cancelled" ELSE "completed",
              !.exitTimer = @ \/ s.uiShuttingDown]

\* complete(): emit onQueueComplete(summary), resolve the start promise.
\* via names the call site; the record appended to completions is the
\* program state at the moment of the emission.
Complete(s, via) ==
    LET summary == GetSummary(s)
        snap == [via |-> via, summary |-> summary,
                 pending |-> Len(s.pendingJobs), active |-> s.activeJobs,
                 registered |-> s.activeProcesses,
                 isScanComplete |-> s.isScanComplete,
                 isShuttingDown |-> s.isShuttingDown]
        s1 == [s EXCEPT !.completions = Append(@, snap),
                        !.handlerLog = Append(@, <<"onQueueComplete", 0>>)]
        s2 == OnQueueComplete(s1)
    IN  [s2 EXCEPT !.queuePromise = IF @ = <<>> THEN <<summary>> ELSE @]

\* ------------------------------------------------------- the input tree
\* The candidate video files below the input root.  Videos 1 and 2 lie in
\* the root directory, every further video in the first subdirectory.
Videos == 1..MaxJobs

VideoDir(v) == IF v <= 2 THEN 1 ELSE 2

\* basename of a video without its extension
VideoBase(s, v) == IF v = 2 /\ s.sameBase THEN 1 ELSE v

\* getOutputPath: join(directory, basename + '.mp3')
GetOutputPath(s, v) == <<VideoDir(v), VideoBase(s, v)>>

\* ------------------------------------------------------------ the ledger
\* Variant: an existing row is updated in place and keeps the outcome of
\* the attempt before.
StartConversionUpdates(db, videoPath, mp3Path, now, videoSize) ==
    [k \in DOMAIN db \cup {videoPath} |->
        IF k # videoPath THEN db[k]
        ELSE IF k \in DOMAIN db
        THEN [db[k] EXCEPT !.mp3_path = mp3Path, !.status = "processing",
                           !.started_at = <<now>>, !.video_size = videoSize]
        ELSE [mp3_path |-> mp3Path, status |-> "processing",
              started_at |-> <<now>>, completed_at |-> <<>>,
              error |-> "null", video_size |-> videoSize,
              mp3_size |-> "null"]]

\* Variant: the update also rewrites started_at.
CompleteConversionRestarts(db, videoPath, mp3Size, now) ==
    IF videoPath \in DOMAIN db
    THEN [db EXCEPT ![videoPath].status = "complete",
                    ![videoPath].started_at = <<now>>,
                    ![videoPath].completed_at = <<now>>,
                    ![videoPath].mp3_size = mp3Size]
    ELSE db

\* stmtInsert: INSERT OR REPLACE ... VALUES (?, ?, 'processing', ?, NULL,
\* NULL, ?, NULL)
StartConversion(db, videoPath, mp3Path, now, videoSize) ==
    [k \in DOMAIN db \cup {videoPath} |->
        IF k = videoPath
        THEN [mp3_path |-> mp3Path, status |-> "processing",
              started_at |-> <<now>>, completed_at |-> <<>>,
              error |-> "null", video_size |-> videoSize,
              mp3_size |-> "null"]
        ELSE db[k]]

\* stmtUpdateComplete: UPDATE ... SET status = 'complete', completed_at = ?,
\* mp3_size = ? WHERE video_path = ?
CompleteConversion(db, videoPath, mp3Size, now) ==
    IF videoPath \in DOMAIN db
    THEN [db EXCEPT ![videoPath].status = "complete",
                    ![videoPath].completed_at = <<now>>,
                    ![videoPath].mp3_size = mp3Size]
    ELSE db

\* stmtUpdateFailed: UPDATE ... SET status = 'failed', completed_at = ?,
\* error = ? WHERE video_path = ?
FailConversion(db, videoPath, error, now) ==
    IF videoPath \in DOMAIN db
    THEN [db EXCEPT ![videoPath].status = "failed",
                    ![videoPath].completed_at = <<now>>,
                    ![videoPath].error = error]
    ELSE db

\* An entry of a job's operation sequence.
Op(s, name, j) == [s EXCEPT !.ops[j] = Append(@, name)]

\* Ledger.start(source, target, source_bytes), written when a job starts,
\* after onJobStart and before the encoder driver is invoked.  The
\* pipeline's clock is not modelled: every write carries the time 1.
LedgerStart(s, j) ==
    Op([s EXCEPT !.conversions =
            StartConversion(@, s.jobFile[j], GetOutputPath(s, s.jobFile[j]),
                            1, "size")],
       "Ledger.start", j)

\* Ledger.complete / Ledger.fail, written by the continuation after the
\* counters and before the scheduling loop is re-entered.  A missing
\* output size is stored as NULL.
LedgerFinish(s, j, success) ==
    IF success
    THEN Op([s EXCEPT !.conversions =
                CompleteConversion(@, s.jobFile[j],
                    IF s.outputSize[j] = "undefined" THEN "null"
                    ELSE s.outputSize[j], 1)],
            "Ledger.complete", j)
    ELSE Op([s EXCEPT !.conversions =
                FailConversion(@, s.jobFile[j], "text", 1)],
            "Ledger.fail", j)

\* -------------------------------------------------------- encoder driver
\* Variant: returns without signalling or deregistering any child.
KillAllJobsKeep(s, cleanupOutputs) == s

\* nothing deleted from the registries, nothing unlinked
NoEffects ==
    [deregistered |-> 0, pathDeregistered |-> 0, unlinked |-> 0,
     exitMissed |-> FALSE, killMissed |-> FALSE]

\* activeProcesses.delete(j) and activeOutputPaths.delete(j): a delete of
\* a missing key changes nothing.
Deregister(s, j) ==
    [s EXCEPT !.activeProcesses = @ \ {j},
              !.activeOutputPaths = @ \ {j},
              !.effects[j].deregistered =
                  IF j \in s.activeProcesses THEN @ + 1 ELSE @,
              !.effects[j].pathDeregistered =
                  IF j \in s.activeOutputPaths THEN @ + 1 ELSE @,
              !.effects[j].exitMissed = @ \/ j \notin s.activeProcesses]

\* killAllJobs, its return value deletedFiles: the registered output
\* paths of the registered children that exist and whose unlink succeeds.
KillAllDeleted(s, cleanupOutputs) ==
    IF cleanupOutputs
    THEN ({GetOutputPath(s, s.jobFile[j]) :
              j \in s.activeProcesses \cap s.activeOutputPaths}
              \cap s.mp3Files) \ s.unlinkFails
    ELSE {}

\* Variant: the children are signalled and their outputs unlinked, but
\* their entries stay in both registries.
KillAllJobsNoDeregister(s, cleanupOutputs) ==
    [s EXCEPT !.proc = [j \in JobId |->
                          IF j \in s.activeProcesses THEN "sigkill" ELSE @[j]],
              !.mp3Files = @ \ KillAllDeleted(s, cleanupOutputs),
              !.effects = [j \in JobId |->
                  IF /\ j \in s.activeProcesses \cap s.activeOutputPaths
                     /\ GetOutputPath(s, s.jobFile[j])
                            \in KillAllDeleted(s, cleanupOutputs)
                  THEN [@[j] EXCEPT !.unlinked = @ + 1]
                  ELSE @[j]]]

\* killAllJobs(cleanupOutputs): SIGKILL every registered child, unlink its
\* registered output path when asked to, deregister.
KillAllJobs(s, cleanupOutputs) ==
    [s EXCEPT !.proc = [j \in JobId |->
                          IF j \in s.activeProcesses THEN "sigkill" ELSE @[j]],
              !.mp3Files = @ \ KillAllDeleted(s, cleanupOutputs),
              !.activeOutputPaths = @ \ s.activeProcesses,
              !.activeProcesses = {},
              !.effects = [j \in JobId |->
                  IF j \in s.activeProcesses
                  THEN [exitMissed |-> @[j].exitMissed,
                        killMissed |-> @[j].killMissed,
                        deregistered |-> @[j].deregistered + 1,
                        pathDeregistered |->
                            IF j \in s.activeOutputPaths
                            THEN @[j].pathDeregistered + 1
                            ELSE @[j].pathDeregistered,
                        unlinked |->
                            IF /\ j \in s.activeOutputPaths
                               /\ GetOutputPath(s, s.jobFile[j])
                                      \in KillAllDeleted(s, cleanupOutputs)
                            THEN @[j].unlinked + 1
                            ELSE @[j].unlinked]
                  ELSE @[j]]]

\* killJob(jobId): SIGTERM the child if registered; only activeProcesses
\* is updated.
KillJobFound(s, j) == j \in s.activeProcesses

KillJob(s, j) ==
    IF KillJobFound(s, j)
    THEN [s EXCEPT !.proc[j] = "sigterm", !.activeProcesses = @ \ {j},
                   !.effects[j].deregistered = @ + 1]
    ELSE [s EXCEPT !.effects[j].killMissed = TRUE]

\* startJob: mark running, onJobStart, executeConversion spawns and
\* registers the child, activeJobs.set.
StartJob(s, j) ==
    LET s1 == [s EXCEPT !.jobStatus[j] = "running"]
        s2 == Op(LedgerStart(NotifyStateChange(Emit(s1, "onJobStart", j)), j),
                 "spawn", j)
    IN  [s2 EXCEPT !.proc[j] = "running",
                   !.activeProcesses = @ \cup {j},
                   !.activeOutputPaths = @ \cup {j},
                   !.activeJobs = @ \cup {j}]

\* Variant: the loop ignores the concurrency limit.
CanStartNoLimit(s) ==
    /\ Len(s.pendingJobs) > 0
    /\ ~s.isShuttingDown
    /\ ~s.isPaused

\* loop condition of processNext
CanStart(s) ==
    /\ Cardinality(s.activeJobs) < s.concurrency
    /\ Len(s.pendingJobs) > 0
    /\ ~s.isShuttingDown
    /\ ~s.isPaused

\* Variant: the loop takes the job added last.
RECURSIVE FillSlotsLast(_)
FillSlotsLast(s) ==
    IF CanStart(s)
    THEN FillSlotsLast(StartJob(
             [s EXCEPT !.pendingJobs = SubSeq(@, 1, Len(@) - 1)],
             s.pendingJobs[Len(s.pendingJobs)]))
    ELSE s

RECURSIVE FillSlots(_)
FillSlots(s) ==
    IF CanStart(s)
    THEN FillSlots(StartJob([s EXCEPT !.pendingJobs = Tail(@)],
                            Head(s.pendingJobs)))
    ELSE s

\* Variant: empty queues complete the pool whatever the scan state.
MayCompleteAlways(s) == TRUE

\* processNext, first test: may the pool complete when both queues are empty
MayComplete(s) == s.isScanComplete \/ s.isShuttingDown

\* processNext
ProcessNext(s) ==
    IF Len(s.pendingJobs) = 0 /\ s.activeJobs = {}
    THEN IF MayComplete(s) THEN Complete(s, "processNext") ELSE s
    ELSE IF s.isShuttingDown \/ s.isPaused
    THEN IF s.isImmediateShutdown /\ s.activeJobs # {}
         THEN LET k == KillAllJobs(s, TRUE)
              IN  Complete([k EXCEPT
                              !.cancelledCount = @ + Cardinality(s.activeJobs),
                              !.counted = [j \in JobId |->
                                  IF j \in s.activeJobs
                                  THEN @[j] \cup {"cancelled"} ELSE @[j]],
                              !.activeJobs = {}],
                           "processNext")
         ELSE s
    ELSE FillSlots(s)

\* Variant: the job is only enqueued, dispatch is left to a later event.
AddFileNoDispatch(s, v) ==
    LET j == s.totalAdded + 1
        s1 == [s EXCEPT !.pendingJobs = Append(@, j),
                        !.jobStatus[j] = "pending",
                        !.jobFile[j] = v,
                        !.totalAdded = @ + 1]
    IN  NotifyStateChange(Emit(s1, "onFileAdded", j))

\* addFile(videoFile), with createConversionJob
AddFileOp(s, v) ==
    LET j == s.totalAdded + 1
        s1 == [s EXCEPT !.pendingJobs = Append(@, j),
                        !.jobStatus[j] = "pending",
                        !.jobFile[j] = v,
                        !.totalAdded = @ + 1]
        s2 == NotifyStateChange(Emit(s1, "onFileAdded", j))
    IN  IF s2.isStarted /\ ~s2.isPaused /\ ~s2.isShuttingDown
        THEN ProcessNext(s2)
        ELSE s2

\* start
StartOp(s) ==
    ProcessNext([s EXCEPT !.isStarted = TRUE, !.isShuttingDown = FALSE,
                          !.isImmediateShutdown = FALSE, !.isPaused = FALSE])

\* markScanComplete
MarkScanCompleteOp(s) ==
    LET s1 == NotifyStateChange([s EXCEPT !.isScanComplete = TRUE])
    IN  IF Len(s1.pendingJobs) = 0 /\ s1.activeJobs = {}
        THEN Complete(s1, "markScanComplete")
        ELSE s1

\* pause / resume
PauseOp(s) == NotifyStateChange([s EXCEPT !.isPaused = TRUE])

\* Variant: resume() does not look at the shutdown flag.
ResumeIgnoresShutdown(s) ==
    ProcessNext(NotifyStateChange([s EXCEPT !.isPaused = FALSE]))

ResumeOp(s) ==
    IF ~s.isShuttingDown
    THEN ProcessNext(NotifyStateChange([s EXCEPT !.isPaused = FALSE]))
    ELSE s

\* the part shared by both shutdown requests: count and drop pending
DropPending(s) ==
    LET dropped == {s.pendingJobs[i] : i \in 1..Len(s.pendingJobs)}
    IN  [s EXCEPT !.cancelledCount = @ + Len(s.pendingJobs),
                  !.counted = [j \in JobId |->
                      IF j \in dropped THEN @[j] \cup {"cancelled"} ELSE @[j]],
                  !.jobStatus = [j \in JobId |->
                      IF j \in dropped THEN "cancelled" ELSE @[j]],
                  !.shutdownEnded = @ \cup dropped,
                  !.pendingJobs = <<>>]

\* requestGracefulShutdown
RequestGracefulShutdownOp(s) ==
    LET s1 == NotifyStateChange([s EXCEPT !.isShuttingDown = TRUE])
        s2 == DropPending(s1)
    IN  IF s2.activeJobs = {} THEN Complete(s2, "graceful") ELSE s2

\* Variant: the jobs that are running are marked cancelled as well.
RequestImmediateShutdownMarksActive(s) ==
    LET s1 == NotifyStateChange([s EXCEPT !.isShuttingDown = TRUE,
                                          !.isImmediateShutdown = TRUE])
        s2 == DropPending(s1)
        s3 == KillAllJobs(s2, TRUE)
        s4 == [s3 EXCEPT !.cancelledCount = @ + Cardinality(s2.activeJobs),
                         !.counted = [j \in JobId |->
                             IF j \in s2.activeJobs
                             THEN @[j] \cup {"cancelled"} ELSE @[j]],
                         !.jobStatus = [j \in JobId |->
                             IF j \in s2.activeJobs
                             THEN "cancelled" ELSE @[j]],
                         !.shutdownEnded = @ \cup s2.activeProcesses,
                         !.activeJobs = {}]
    IN  Complete(s4, "immediate")

\* requestImmediateShutdown
RequestImmediateShutdownOp(s) ==
    LET s1 == NotifyStateChange([s EXCEPT !.isShuttingDown = TRUE,
                                          !.isImmediateShutdown = TRUE])
        s2 == DropPending(s1)
        s3 == KillAllJobs(s2, TRUE)
        s4 == [s3 EXCEPT !.cancelledCount = @ + Cardinality(s2.activeJobs),
                         !.counted = [j \in JobId |->
                             IF j \in s2.activeJobs
                             THEN @[j] \cup {"cancelled"} ELSE @[j]],
                         !.shutdownEnded = @ \cup s2.activeProcesses,
                         !.activeJobs = {}]
    IN  Complete(s4, "immediate")

\* the value a call for job j returns, noted after the callbacks it emitted
Return(s, value, j) == [s EXCEPT !.handlerLog = Append(@, <<value, j>>)]

\* Variant: a cancelled running job is not removed from the active set.
CancelJobKeepsActive(s, j) ==
    IF \E i \in 1..Len(s.pendingJobs) : s.pendingJobs[i] = j
    THEN Return(NotifyStateChange(
           [s EXCEPT !.pendingJobs = SelectSeq(@, LAMBDA x : x # j),
                     !.jobStatus[j] = "cancelled",
                     !.cancelledCount = @ + 1,
                     !.counted[j] = @ \cup {"cancelled"}]), "true", j)
    ELSE IF j \in s.activeJobs /\ KillJobFound(s, j)
    THEN Return(ProcessNext(NotifyStateChange(
           [KillJob(s, j) EXCEPT !.cancelledCount = @ + 1,
                                 !.counted[j] = @ \cup {"cancelled"}])),
                "true", j)
    ELSE IF j \in s.activeJobs THEN Return(KillJob(s, j), "false", j)
    ELSE Return(s, "false", j)

\* cancelJob
CancelJobOp(s, j) ==
    IF \E i \in 1..Len(s.pendingJobs) : s.pendingJobs[i] = j
    THEN Return(NotifyStateChange(
           [s EXCEPT !.pendingJobs = SelectSeq(@, LAMBDA x : x # j),
                     !.jobStatus[j] = "cancelled",
                     !.cancelledCount = @ + 1,
                     !.counted[j] = @ \cup {"cancelled"}]), "true", j)
    ELSE IF j \in s.activeJobs /\ KillJobFound(s, j)
    THEN Return(ProcessNext(NotifyStateChange(
           [KillJob(s, j) EXCEPT !.activeJobs = @ \ {j},
                                 !.cancelledCount = @ + 1,
                                 !.counted[j] = @ \cup {"cancelled"}])),
                "true", j)
    ELSE IF j \in s.activeJobs THEN Return(KillJob(s, j), "false", j)
    ELSE Return(s, "false", j)

\* Variant: the observer is notified both before and after the dispatch.
ContinuationTwice(s, j, success) ==
    LET s1 == [s EXCEPT !.activeJobs = @ \ {j},
                        !.completedCount = IF success THEN @ + 1 ELSE @,
                        !.failedCount = IF success THEN @ ELSE @ + 1,
                        !.counted[j] =
                            @ \cup {IF success THEN "completed" ELSE "failed"}]
        s2 == ProcessNext(Emit(LedgerFinish(s1, j, success),
                               "onJobComplete", j))
    IN  NotifyStateChange(Emit(s2, "onJobComplete", j))

\* Variant: the continuation does not re-enter the scheduling loop.
ContinuationNoDispatch(s, j, success) ==
    LET s1 == [s EXCEPT !.activeJobs = @ \ {j},
                        !.completedCount = IF success THEN @ + 1 ELSE @,
                        !.failedCount = IF success THEN @ ELSE @ + 1,
                        !.counted[j] =
                            @ \cup {IF success THEN "completed" ELSE "failed"}]
    IN  NotifyStateChange(Emit(LedgerFinish(s1, j, success),
                               "onJobComplete", j))

\* Variant: the observer is notified before the ledger is written.
ContinuationCallbackFirst(s, j, success) ==
    LET s1 == [s EXCEPT !.activeJobs = @ \ {j},
                        !.completedCount = IF success THEN @ + 1 ELSE @,
                        !.failedCount = IF success THEN @ ELSE @ + 1,
                        !.counted[j] =
                            @ \cup {IF success THEN "completed" ELSE "failed"}]
        s2 == ProcessNext(Emit(s1, "onJobComplete", j))
    IN  NotifyStateChange(LedgerFinish(s2, j, success))

\* startJob, continuation of the conversion promise
Continuation(s, j, success) ==
    LET s1 == [s EXCEPT !.activeJobs = @ \ {j},
                        !.completedCount = IF success THEN @ + 1 ELSE @,
                        !.failedCount = IF success THEN @ ELSE @ + 1,
                        !.counted[j] =
                            @ \cup {IF success THEN "completed" ELSE "failed"}]
        s2 == ProcessNext(LedgerFinish(s1, j, success))
    IN  NotifyStateChange(Emit(s2, "onJobComplete", j))

\* ------------------------------------------------- the stderr of a child
\* Times in ticks of a hundredth of a second.
Times == 0..MaxTime

\* the substrings the close handler looks for in the captured output
Patterns ==
    {"No such file or directory", "Permission denied", "Invalid data found",
     "No space left on device", "Unknown encoder"}

\* a parsed value in ticks, or empty for null
Parsed == {<<>>} \cup {<<x>> : x \in Times}

\* A chunk of stderr, by what the handlers read from it: the Duration:
\* line, the out_time_ms= line and the time= line it carries (empty when
\* the chunk has no such line) and the error patterns it contains.
TimeChunks ==
    [duration : Parsed, out_time_ms : Parsed, time : Parsed,
     patterns : {{}}]

PatternChunks ==
    [duration : {<<>>}, out_time_ms : {<<>>}, time : {<<>>},
     patterns : SUBSET Patterns]

Chunks == TimeChunks \cup PatternChunks

\* the chunk of an encoder that reports its duration and its position
ProgressChunks ==
    {[duration |-> <<1>>, out_time_ms |-> <<>>, time |-> <<1>>,
      patterns |-> {}]}

\* parseDuration
ParseDuration(chunk) == chunk.duration

\* parseCurrentTime: out_time_ms first, then time=
ParseCurrentTime(chunk) ==
    IF chunk.out_time_ms # <<>> THEN chunk.out_time_ms ELSE chunk.time

\* Math.round of the non-negative quotient n / d
Round(n, d) == (2 * n + d) \div (2 * d)

\* calculateProgress
CalculateProgress(currentTime, d) ==
    IF d <= 0 THEN 0 ELSE Min(100, Round(currentTime * 100, d))

\* Variant: the last pattern of the list wins.
ClassifyErrorReversed(output) ==
    IF "Unknown encoder" \in output THEN "Audio codec not available"
    ELSE IF "No space left on device" \in output THEN "Disk full"
    ELSE IF "Invalid data found" \in output
    THEN "Invalid or corrupted input file"
    ELSE IF "Permission denied" \in output THEN "Permission denied"
    ELSE IF "No such file or directory" \in output
    THEN "Input file not found"
    ELSE "FFmpeg exited with code"

\* the error message of the close handler for a non-zero exit code
ClassifyError(output) ==
    IF "No such file or directory" \in output THEN "Input file not found"
    ELSE IF "Permission denied" \in output THEN "Permission denied"
    ELSE IF "Invalid data found" \in output
    THEN "Invalid or corrupted input file"
    ELSE IF "No space left on device" \in output THEN "Disk full"
    ELSE IF "Unknown encoder" \in output THEN "Audio codec not available"
    ELSE "FFmpeg exited with code"

\* executeConversion, stderr 'data' handler, and the onProgress callback
\* of startJob
OnDataOp(s, j, chunk) ==
    LET d == IF s.duration[j] = <<>> THEN ParseDuration(chunk)
             ELSE s.duration[j]
        currentTime == ParseCurrentTime(chunk)
        s1 == [s EXCEPT !.stderrOutput[j] = @ \cup chunk.patterns,
                        !.duration[j] = d]
    IN  IF currentTime # <<>> /\ d # <<>>
        THEN NotifyStateChange(Emit(
                 [s1 EXCEPT !.jobProgress[j] =
                                CalculateProgress(currentTime[1], d[1]),
                            !.progress[j] =
                      Append(@, <<CalculateProgress(currentTime[1], d[1]),
                                  currentTime[1]>>)],
                 "onJobProgress", j))
        ELSE s1

\* executeConversion, 'close' handler.  code 0 suspends on stat();
\* any other code resolves at once.  After an 'error' the promise is
\* already resolved and only the job record is written again.
OnCloseOp(s, j, code) ==
    LET s1 == Op(Deregister(s, j), "exit", j)
    IN  IF code = 0
        THEN [s1 EXCEPT !.proc[j] = "stat"]
        ELSE IF s.proc[j] = "errored"
        THEN [s1 EXCEPT !.proc[j] = "done", !.jobStatus[j] = "failed",
                        !.jobError[j] = ClassifyError(s.stderrOutput[j])]
        ELSE Continuation(
                 [s1 EXCEPT !.proc[j] = "done", !.jobStatus[j] = "failed",
                            !.jobError[j] = ClassifyError(s.stderrOutput[j]),
                            !.resultError[j] =
                                ClassifyError(s.stderrOutput[j])],
                 j, FALSE)

\* Variant: the job is completed with the progress last reported.
OnStatDoneKeepsProgress(s, j) ==
    Continuation([s EXCEPT !.proc[j] = "done",
                           !.jobStatus[j] = "completed",
                           !.outputSize[j] =
                               IF GetOutputPath(s, s.jobFile[j]) \in s.mp3Files
                               THEN "size" ELSE "undefined"], j, TRUE)

\* executeConversion, 'close' handler after the await of stat(): the
\* size of the output, or undefined when the stat fails
OnStatDoneOp(s, j) ==
    Continuation([s EXCEPT !.proc[j] = "done",
                           !.jobStatus[j] = "completed",
                           !.jobProgress[j] = 100,
                           !.outputSize[j] =
                               IF GetOutputPath(s, s.jobFile[j]) \in s.mp3Files
                               THEN "size" ELSE "undefined"], j, TRUE)

\* Variant: a spawn failure is recorded on the job but never resolved.
OnErrorNoResolve(s, j) ==
    Op([Deregister(s, j) EXCEPT
                 !.proc[j] = "errored",
                 !.jobStatus[j] = "failed",
                 !.jobError[j] = "err.message"], "error", j)

\* executeConversion, 'error' handler (spawn failure); 'close' follows
OnErrorOp(s, j) ==
    Continuation(Op([Deregister(s, j) EXCEPT
                              !.proc[j] = "errored",
                              !.jobStatus[j] = "failed",
                              !.jobError[j] = "err.message",
                              !.resultError[j] = "err.message"], "error", j),
                 j, FALSE)

\* ----------------------------------------------------- the scanner loop
\* Variant: the loop adds the file without looking at the shutdown flag.
ScannerFileNoCheck(s, v) == AddFileOp(s, v)

ZeroStats ==
    [totalFound |-> 0, toProcess |-> 0, skippedMP3 |-> 0, skippedSRT |-> 0,
     errors |-> 0]

\* the local stats of runScanner, as last copied to the scanStats signal
RunStats(s) == IF s.scanStats = <<>> THEN ZeroStats ELSE s.scanStats[1]

\* the message shown when a scan found nothing to process
NothingToProcess(s, stats) ==
    IF stats.toProcess = 0
    THEN SetError(s, IF stats.totalFound = 0 THEN "no video files"
                     ELSE "all skipped")
    ELSE s

\* runScanner once the loop is left: the finally block, then the message
\* for a scan that found nothing to process
ScannerEndOp(s) ==
    NothingToProcess(MarkScanCompleteOp([s EXCEPT !.scanning = FALSE]),
                     RunStats(s))

\* runScanner, loop body for a 'file' event
ScannerFileOp(s, v) ==
    IF s.uiShuttingDown
    THEN ScannerEndOp(s)
    ELSE AddFileOp(s, v)

\* runScanner, loop body for an event of the walker: the shutdown check
\* and break (with the finally block), or the switch and setScanStats.
\* The generator is closed by the break.
ScannerEventOp(s, e) ==
    LET Body(r) ==
            IF r.uiShuttingDown
            THEN ScannerEndOp([r EXCEPT !.generator = "returned"])
            ELSE LET d == [r EXCEPT !.delivered = Append(@, e)]
                     st == RunStats(r)
                 IN  CASE e.type = "file" ->
                            [ScannerFileOp(d, e.id) EXCEPT !.scanStats =
                                <<[st EXCEPT !.toProcess = @ + 1,
                                             !.totalFound = @ + 1]>>]
                       [] e.type = "skipped" ->
                            [d EXCEPT !.scanStats =
                                <<[st EXCEPT
                                     !.totalFound = @ + 1,
                                     !.skippedMP3 =
                                         IF e.reason = "mp3" THEN @ + 1 ELSE @,
                                     !.skippedSRT =
                                         IF e.reason = "mp3" THEN @ ELSE @ + 1]>>]
                       [] e.type = "directory" ->
                            [d EXCEPT !.scanStats = <<st>>]
                       [] e.type = "error" ->
                            [d EXCEPT !.scanStats =
                                <<[st EXCEPT !.errors = @ + 1]>>]
                       [] OTHER -> [d EXCEPT !.scanStats = <<r.walkStats>>]
    IN  Once(Body, s)

\* ------------------------------------------------------------ the walker
\* The directories below the input root: 1 is the root, every other
\* directory is a subdirectory of the root.
Dirs == 1..MaxDirs

Subdirs(d) == IF d = 1 THEN 2..MaxDirs ELSE {}

\* a set of numbers in increasing order (the order of the enumeration)
SortedSeq(S) ==
    [k \in 1..Cardinality(S) |->
        CHOOSE x \in S : Cardinality({y \in S : y < x}) = k - 1]

\* the video files of a directory, in the order readdir returns them
VideoFiles(d) == SortedSeq({v \in Videos : VideoDir(v) = d})

\* Math.max(1, Math.min(options.directoryConcurrency ?? 5, 20))
ClampDirConcurrency(c) == Max(1, Min(c, DirConcurrencyLimit))

HasMP3(s, v) == GetOutputPath(s, v) \in s.mp3Files
HasSRT(s, v) == GetOutputPath(s, v) \in s.srtFiles

Event(type, id, reason) == [type |-> type, id |-> id, reason |-> reason]

\* Variant: every event is pushed twice.
PushTwice(s, e) ==
    [s EXCEPT !.eventBuffer = Append(Append(@, e), e),
              !.emitted = Append(Append(@, e), e)]

\* eventBuffer.push(event)
Push(s, e) ==
    [s EXCEPT !.eventBuffer = Append(@, e), !.emitted = Append(@, e)]

\* notifyEvent: resolve the promise the generator waits on, if any.  The
\* generator resumes once the running handler has returned.
NotifyEvent(s) ==
    IF s.eventResolver
    THEN [s EXCEPT !.eventResolver = FALSE, !.generator = "resumed"]
    ELSE s

\* loop condition of the generator
GeneratorContinues(s) == ~s.scanComplete \/ Len(s.eventBuffer) > 0

\* The generator from the point where it resumes: the yield loop, the
\* consumer's loop body for every event yielded, the final 'complete'
\* event, and the consumer's finally block when the stream ends.
RECURSIVE GeneratorLoop(_)
GeneratorLoop(s) ==
    LET Body(r) ==
            IF r.generator # "resumed" THEN r
            ELSE IF GeneratorContinues(r)
            THEN IF Len(r.eventBuffer) > 0
                 THEN GeneratorLoop(
                          ScannerEventOp([r EXCEPT !.eventBuffer = Tail(@)],
                                         Head(r.eventBuffer)))
                 ELSE IF ~r.scanComplete
                 THEN [r EXCEPT !.eventResolver = TRUE,
                                !.generator = "waiting"]
                 ELSE r
            ELSE LET Finish(c) ==
                         IF c.generator = "returned" THEN c
                         ELSE ScannerEndOp([c EXCEPT !.generator = "done"])
                 IN  Once(Finish, ScannerEventOp(r, Event("complete", 0, "")))
    IN  Once(Body, s)

\* worker: take the next directory and start reading it, or end (the
\* finally of runWorkers then decrements activeWorkers)
WorkerLoop(s) ==
    IF Len(s.directoryQueue) > 0
    THEN [s EXCEPT !.directoryQueue = Tail(@),
                   !.workers = @ \cup {[op |-> "readdir",
                                        dir |-> Head(s.directoryQueue),
                                        i |-> 0]}]
    ELSE [s EXCEPT !.activeWorkers = @ - 1]

\* processDirectory after the await of readdir
\* Variant: a directory that cannot be read is counted but not reported.
ReaddirDoneSilent(s, d, ok) ==
    LET s0 == [s EXCEPT !.workers = @ \ {[op |-> "readdir", dir |-> d,
                                           i |-> 0]}]
    IN  IF ~ok
        THEN WorkerLoop([s0 EXCEPT !.walkStats.errors = @ + 1])
        ELSE LET s1 == NotifyEvent(Push(s0, Event("directory", d, "")))
                 s2 == [s1 EXCEPT !.directoryQueue =
                            IF s.recursive
                            THEN @ \o SortedSeq(Subdirs(d)) ELSE @]
             IN  IF Len(VideoFiles(d)) > 0
                 THEN [s2 EXCEPT !.workers = @ \cup {[op |-> "batch",
                                                      dir |-> d, i |-> 0]}]
                 ELSE WorkerLoop(s2)

\* processDirectory after the await of readdir for directory d
ReaddirDoneOp(s, d, ok) ==
    LET s0 == [s EXCEPT !.workers = @ \ {[op |-> "readdir", dir |-> d,
                                           i |-> 0]}]
    IN  IF ~ok
        THEN WorkerLoop(NotifyEvent(
                 Push([s0 EXCEPT !.walkStats.errors = @ + 1],
                      Event("error", d, ""))))
        ELSE LET s1 == NotifyEvent(Push(s0, Event("directory", d, "")))
                 s2 == [s1 EXCEPT !.directoryQueue =
                            IF s.recursive
                            THEN @ \o SortedSeq(Subdirs(d)) ELSE @]
             IN  IF Len(VideoFiles(d)) > 0
                 THEN [s2 EXCEPT !.workers = @ \cup {[op |-> "batch",
                                                      dir |-> d, i |-> 0]}]
                 ELSE WorkerLoop(s2)

\* Variant: a video with an .mp3 companion is still reported as a file.
ClassifyIgnoreMP3(s, v) ==
    IF HasSRT(s, v) THEN Event("skipped", v, "srt")
    ELSE Event("file", v, "")

\* the classification of a video file whose stat succeeded
Classify(s, v) ==
    IF HasSRT(s, v) THEN Event("skipped", v, "srt")
    ELSE IF HasMP3(s, v) THEN Event("skipped", v, "mp3")
    ELSE Event("file", v, "")

\* Variant: every skipped file is counted as skipped for its subtitle.
CountFileOneSkipCounter(st, e) ==
    [st EXCEPT !.totalFound = @ + 1,
               !.skippedSRT = IF e.type = "skipped" THEN @ + 1 ELSE @,
               !.toProcess = IF e.type = "file" THEN @ + 1 ELSE @]

\* the stats increments of the batch callback for one classified file
CountFile(st, e) ==
    [st EXCEPT !.totalFound = @ + 1,
               !.skippedSRT = IF e.reason = "srt" THEN @ + 1 ELSE @,
               !.skippedMP3 = IF e.reason = "mp3" THEN @ + 1 ELSE @,
               !.toProcess = IF e.type = "file" THEN @ + 1 ELSE @]

\* the results of a batch, pushed in the order of the batch; failed holds
\* the files whose stat was rejected
RECURSIVE PushResults(_, _, _)
PushResults(s, batch, failed) ==
    LET Body(r) ==
            IF batch = <<>> THEN r
            ELSE LET v == Head(batch)
                     s1 == IF v \in failed
                           THEN Push([r EXCEPT !.walkStats.errors = @ + 1],
                                     Event("error", 0, ""))
                           ELSE Push([r EXCEPT !.walkStats =
                                          CountFile(@, Classify(r, v))],
                                     Classify(r, v))
                 IN  PushResults(s1, Tail(batch), failed)
    IN  Once(Body, s)

\* files i+1 .. i+fileConcurrency of a directory
Batch(d, i) ==
    SubSeq(VideoFiles(d), i + 1, Min(i + FileConcurrency, Len(VideoFiles(d))))

\* processDirectory after the await of Promise.allSettled for one batch
BatchDoneOp(s, d, i, failed) ==
    LET s0 == [s EXCEPT !.workers = @ \ {[op |-> "batch", dir |-> d,
                                           i |-> i]}]
        Rest(r) ==
            IF i + FileConcurrency < Len(VideoFiles(d))
            THEN [r EXCEPT !.workers = @ \cup {[op |-> "batch", dir |-> d,
                                                i |-> i + FileConcurrency]}]
            ELSE WorkerLoop(r)
    IN  Once(Rest, NotifyEvent(PushResults(s0, Batch(d, i), failed)))

\* runWorkers, inner loop: spawn workers up to the concurrency limit
RECURSIVE SpawnWorkers(_)
SpawnWorkers(s) ==
    IF s.activeWorkers < s.dirConcurrency /\ Len(s.directoryQueue) > 0
    THEN SpawnWorkers(WorkerLoop([s EXCEPT !.activeWorkers = @ + 1]))
    ELSE s

\* Variant: the scan is declared complete as soon as the queue is empty.
RunWorkersContinuesQueueOnly(s) == Len(s.directoryQueue) > 0

\* loop condition of runWorkers
RunWorkersContinues(s) == Len(s.directoryQueue) > 0 \/ s.activeWorkers > 0

\* runWorkers from its loop test: one iteration, or the end of the scan
RunWorkersOp(s) ==
    IF RunWorkersContinues(s) THEN SpawnWorkers(s)
    ELSE NotifyEvent([s EXCEPT !.scanComplete = TRUE])

\* scanDirectoryStreamParallel up to its first suspension: the first
\* iteration of runWorkers, then the yield loop
ScanStartOp(s) ==
    GeneratorLoop(RunWorkersOp(
        [s EXCEPT !.directoryQueue = <<1>>, !.eventBuffer = <<>>,
                  !.activeWorkers = 0, !.scanComplete = FALSE,
                  !.eventResolver = FALSE, !.walkStats = ZeroStats,
                  !.workers = {}, !.generator = "resumed"]))

\* ------------------------------------------------------------ controller
\* startProcessing: open the pool, start it, launch the scanner loop
StartProcessingOp(s) ==
    ScanStartOp(StartOp([s EXCEPT !.appStatus = "processing",
                                  !.scanning = TRUE,
                                  !.scanStats = <<ZeroStats>>,
                                  !.dbHandle = "open", !.queue = TRUE]))

\* scanDirectory: the video files found by the batch scan; bad holds the
\* directories that cannot be read and the files that cannot be stat-ed,
\* which the scan leaves out with a warning
AllFiles(s, bad) ==
    LET read == {d \in Dirs \ bad.dirs :
                    \/ d = 1
                    \/ s.recursive /\ 1 \notin bad.dirs /\ d \in Subdirs(1)}
    IN  {v \in Videos \ bad.files : VideoDir(v) \in read}

\* the result of scanDirectory as initialize hands it to setScanStats
DryRunStats(s, bad) ==
    LET allFiles == AllFiles(s, bad)
    IN  [totalFound |-> Cardinality(allFiles),
         toProcess |-> Cardinality({v \in allFiles :
                           ~(HasMP3(s, v) \/ HasSRT(s, v))}),
         skippedMP3 |-> Cardinality({v \in allFiles :
                            HasMP3(s, v) /\ ~HasSRT(s, v)}),
         skippedSRT |-> Cardinality({v \in allFiles : HasSRT(s, v)}),
         errors |-> 0]

\* Variant: the dry-run option is not looked at.
InitializeIgnoresDryRun(s, valid, bad) ==
    IF valid # "ok" THEN [SetError(s, valid) EXCEPT !.appStatus = "error"]
    ELSE StartProcessingOp([s EXCEPT !.appStatus = "idle"])

\* Variant: a failed check is reported but the processing starts anyway.
InitializeIgnoresChecks(s, valid, bad) ==
    IF valid # "ok"
    THEN StartProcessingOp([SetError(s, valid) EXCEPT !.appStatus = "idle"])
    ELSE IF s.dryRun
    THEN [NothingToProcess([s EXCEPT !.dbHandle = "open"], DryRunStats(s, bad))
             EXCEPT !.scanStats = <<DryRunStats(s, bad)>>,
                    !.appStatus = "completed"]
    ELSE StartProcessingOp([s EXCEPT !.appStatus = "idle"])

\* the outcomes of the two checks of initialize: both pass, validateFFmpeg
\* fails, validateInputDirectory fails
PreflightResults == {"ok", "ffmpeg", "input"}

\* initialize, followed by the auto-start of ProcessingRoute.onMount
InitializeOp(s, valid, bad) ==
    IF valid # "ok" THEN [SetError(s, valid) EXCEPT !.appStatus = "error"]
    ELSE IF s.dryRun
    THEN [NothingToProcess([s EXCEPT !.dbHandle = "open"], DryRunStats(s, bad))
             EXCEPT !.scanStats = <<DryRunStats(s, bad)>>,
                    !.appStatus = "completed"]
    ELSE StartProcessingOp([s EXCEPT !.appStatus = "idle"])

\* Variant: with a pool, every interrupt requests immediate shutdown.
RequestShutdownAlwaysImmediate(s) ==
    LET count == s.ctrlCCount + 1
        s1 == [s EXCEPT !.ctrlCCount = count, !.uiShuttingDown = TRUE,
                        !.nShutdownRequests = @ + 1]
    IN  IF ~s1.queue
        THEN IF count >= 2 THEN [s1 EXCEPT !.exited = TRUE]
             ELSE [s1 EXCEPT !.exitTimer = TRUE]
        ELSE [RequestImmediateShutdownOp(s1) EXCEPT !.exitTimer = TRUE]

\* requestShutdown
RequestShutdownOp(s) ==
    LET count == s.ctrlCCount + 1
        s1 == [s EXCEPT !.ctrlCCount = count, !.uiShuttingDown = TRUE,
                        !.nShutdownRequests = @ + 1]
    IN  IF ~s1.queue
        THEN IF count >= 2 THEN [s1 EXCEPT !.exited = TRUE]
             ELSE [s1 EXCEPT !.exitTimer = TRUE]
        ELSE IF count = 1
        THEN RequestGracefulShutdownOp(s1)
        ELSE [RequestImmediateShutdownOp(s1) EXCEPT !.exitTimer = TRUE]

\* handleSigint
HandleSigintOp(s) ==
    IF s.shutdownHandler THEN RequestShutdownOp(s)
    ELSE [s EXCEPT !.exited = TRUE]

\* --------------------------------------------------------------- states
InitCommon ==
    /\ pendingJobs = <<>>
    /\ activeJobs = {}
    /\ totalAdded = 0
    /\ completedCount = 0
    /\ failedCount = 0
    /\ cancelledCount = 0
    /\ concurrency \in {ClampConcurrency(c) : c \in 1..MaxConcurrency}
    /\ isPaused = FALSE
    /\ isShuttingDown = FALSE
    /\ isImmediateShutdown = FALSE
    /\ isStarted = FALSE
    /\ isScanComplete = FALSE
    /\ queuePromise = <<>>
    /\ jobStatus = [j \in JobId |-> "none"]
    /\ activeProcesses = {}
    /\ activeOutputPaths = {}
    /\ proc = [j \in JobId |-> "none"]
    /\ cb = [j \in JobId |-> <<>>]
    /\ completions = <<>>
    /\ counted = [j \in JobId |-> {}]
    /\ shutdownEnded = {}
    /\ uiShuttingDown = FALSE
    /\ ctrlCCount = 0
    /\ scanning = FALSE
    /\ exitTimer = FALSE
    /\ exited = FALSE
    /\ nShutdownRequests = 0
    /\ nPauses = 0
    /\ jobFile = [j \in JobId |-> 0]
    /\ outputSize = [j \in JobId |-> "undefined"]
    /\ ops = [j \in JobId |-> <<>>]
    /\ directoryQueue = <<>>
    /\ eventBuffer = <<>>
    /\ activeWorkers = 0
    /\ scanComplete = FALSE
    /\ eventResolver = FALSE
    /\ walkStats = ZeroStats
    /\ workers = {}
    /\ generator = "none"
    /\ emitted = <<>>
    /\ delivered = <<>>
    /\ scanStats = <<>>
    /\ nFailures = 0
    /\ runs = <<>>
    /\ errorMsgs = <<>>
    /\ dbHandle = "null"
    /\ duration = [j \in JobId |-> <<>>]
    /\ stderrOutput = [j \in JobId |-> {}]
    /\ progress = [j \in JobId |-> <<>>]
    /\ jobError = [j \in JobId |-> "null"]
    /\ jobProgress = [j \in JobId |-> 0]
    /\ resultError = [j \in JobId |-> "null"]
    /\ nChunks = 0
    /\ unlinkFails = {}
    /\ killCalls = <<>>
    /\ deletedFiles = {}
    /\ handlerLog = <<>>
    /\ effects = [j \in JobId |-> NoEffects]
    /\ ledgerCalls = <<>>

\* An input tree without companions, without a ledger, with distinct
\* basenames.
FreshTree ==
    /\ conversions = <<>>
    /\ mp3Files = {}
    /\ srtFiles = {}
    /\ sameBase = FALSE

\* A freshly constructed pool, driven through its public interface.
Init ==
    /\ InitCommon
    /\ appStatus = "processing"
    /\ queue = TRUE
    /\ dryRun = FALSE
    /\ shutdownHandler = TRUE
    /\ FreshTree
    /\ recursive = TRUE
    /\ dirConcurrency = ClampDirConcurrency(DefaultDirConcurrency)

\* The application right after startTUI registered the SIGINT handler.
InitCtl ==
    /\ InitCommon
    /\ appStatus = "init"
    /\ queue = FALSE
    /\ dryRun \in BOOLEAN
    /\ shutdownHandler = FALSE
    /\ FreshTree
    /\ recursive = TRUE
    /\ dirConcurrency = ClampDirConcurrency(DefaultDirConcurrency)

\* Progress callbacks emitted so far, over all jobs.
RECURSIVE SumOver(_, _)
SumOver(f, S) ==
    IF S = {} THEN 0
    ELSE LET x == CHOOSE y \in S : TRUE IN f[x] + SumOver(f, S \ {x})

NProgress ==
    SumOver([j \in JobId |-> Cardinality(Pos(cb[j], "onJobProgress"))], JobId)

\* ------------------------------------------------- actions: the children
\* A child that exits with code 0 has written its output file.
ChildExit(s, j, code) ==
    IF code = 0
    THEN [s EXCEPT !.mp3Files = @ \cup {GetOutputPath(s, s.jobFile[j])}]
    ELSE s

\* a chunk of an encoder that reports its duration and its position
ChildData ==
    \E j \in JobId, chunk \in ProgressChunks :
        /\ ~exited
        /\ proc[j] \in {"running", "sigterm", "sigkill"}
        /\ NProgress < MaxProgress
        /\ Commit(OnDataOp(St, j, chunk))

\* any chunk
ChildChunk ==
    \E j \in JobId, chunk \in Chunks :
        /\ ~exited
        /\ proc[j] \in {"running", "sigterm", "sigkill"}
        /\ nChunks < MaxChunks
        /\ Commit(OnDataOp([St EXCEPT !.nChunks = @ + 1], j, chunk))

ChildClose ==
    \E j \in JobId, code \in {0, 1} :
        /\ ~exited
        /\ proc[j] \in {"running", "sigterm", "sigkill", "errored"}
        /\ proc[j] = "errored" => code # 0
        /\ Commit(OnCloseOp(ChildExit(St, j, code), j, code))

StatDone ==
    \E j \in JobId :
        /\ ~exited
        /\ proc[j] = "stat"
        /\ Commit(OnStatDoneOp(St, j))

ChildError ==
    \E j \in JobId :
        /\ ~exited
        /\ proc[j] = "running"
        /\ Commit(OnErrorOp(St, j))

Child == ChildData \/ ChildClose \/ StatDone \/ ChildError

\* --------------------------------------------- actions: the pool interface
Start ==
    /\ ~isStarted
    /\ Commit(StartOp(St))

AddFile ==
    /\ totalAdded < MaxJobs
    /\ ~isScanComplete
    /\ Commit(AddFileOp(St, totalAdded + 1))

MarkScanComplete ==
    /\ isStarted
    /\ ~isScanComplete
    /\ Commit(MarkScanCompleteOp(St))

Pause ==
    /\ isStarted
    /\ ~isPaused
    /\ nPauses < MaxPauses
    /\ Commit(PauseOp([St EXCEPT !.nPauses = @ + 1]))

Resume ==
    /\ isStarted
    /\ isPaused
    /\ Commit(ResumeOp([St EXCEPT !.handlerLog = <<<<"resume", 0>>>>]))

CancelJob ==
    \E j \in JobId :
        /\ isStarted
        /\ j <= totalAdded
        /\ Commit(CancelJobOp(
                     [St EXCEPT !.handlerLog = <<<<"cancelJob", j>>>>], j))

RequestGracefulShutdown ==
    /\ isStarted
    /\ nShutdownRequests < MaxShutdownRequests
    /\ Commit(RequestGracefulShutdownOp(
                 [St EXCEPT !.nShutdownRequests = @ + 1]))

RequestImmediateShutdown ==
    /\ isStarted
    /\ nShutdownRequests < MaxShutdownRequests
    /\ Commit(RequestImmediateShutdownOp(
                 [St EXCEPT !.nShutdownRequests = @ + 1]))

Next ==
    \/ Start
    \/ AddFile
    \/ MarkScanComplete
    \/ Pause
    \/ Resume
    \/ CancelJob
    \/ RequestGracefulShutdown
    \/ RequestImmediateShutdown
    \/ ChildData
    \/ ChildClose
    \/ StatDone
    \/ ChildError

Spec == Init /\ [][Next]_vars

\* ------------------------------------------------ actions: the controller
Mount ==
    /\ ~exited
    /\ appStatus = "init"
    /\ Commit([St EXCEPT !.shutdownHandler = TRUE, !.appStatus = "scanning"])

\* the failures of the batch scan of a dry run
ScanFailures ==
    IF dryRun
    THEN {bad \in [dirs : SUBSET Dirs, files : SUBSET Videos] :
             Cardinality(bad.dirs) + Cardinality(bad.files) <= MaxFailures}
    ELSE {[dirs |-> {}, files |-> {}]}

Initialize ==
    \E valid \in PreflightResults, bad \in ScanFailures :
        /\ ~exited
        /\ appStatus = "scanning"
        /\ valid = "ok" \/ bad = [dirs |-> {}, files |-> {}]
        /\ Commit(InitializeOp(
               [St EXCEPT !.nFailures = Cardinality(bad.dirs)
                                         + Cardinality(bad.files)],
               valid, bad))

Sigint ==
    /\ ~exited
    /\ nShutdownRequests < MaxShutdownRequests
    /\ Commit(HandleSigintOp(St))

ExitTimer ==
    /\ ~exited
    /\ exitTimer
    /\ Commit([St EXCEPT !.exited = TRUE])

ScannerFile ==
    /\ ~exited
    /\ scanning
    /\ totalAdded < MaxJobs
    /\ Commit(ScannerFileOp(St, totalAdded + 1))

ScannerEnd ==
    /\ ~exited
    /\ scanning
    /\ Commit(ScannerEndOp(St))

NextCtl ==
    \/ Mount
    \/ Initialize
    \/ Sigint
    \/ ExitTimer
    \/ ScannerFile
    \/ ScannerEnd
    \/ ChildData
    \/ ChildClose
    \/ StatDone
    \/ ChildError

SpecCtl == InitCtl /\ [][NextCtl]_vars

\* --------------------------------------------------- actions: the walker
\* The walker's own handlers.  Once the consumer has left the loop the
\* remaining workers only read the file system and nothing observes them,
\* so the handlers are followed only while the generator is listened to.
ReaddirDone ==
    \E w \in workers, ok \in BOOLEAN :
        /\ ~exited
        /\ generator = "waiting"
        /\ w.op = "readdir"
        /\ ~ok => nFailures < MaxFailures
        /\ Commit(GeneratorLoop(ReaddirDoneOp(
               [St EXCEPT !.nFailures = IF ok THEN @ ELSE @ + 1],
               w.dir, ok)))

BatchDone ==
    \E w \in workers :
        /\ ~exited
        /\ generator = "waiting"
        /\ w.op = "batch"
        /\ \E failed \in SUBSET {Batch(w.dir, w.i)[k] :
                                    k \in 1..Len(Batch(w.dir, w.i))} :
              /\ nFailures + Cardinality(failed) <= MaxFailures
              /\ Commit(GeneratorLoop(BatchDoneOp(
                     [St EXCEPT !.nFailures = @ + Cardinality(failed)],
                     w.dir, w.i, failed)))

\* the 10 ms timer of runWorkers
RunWorkersTick ==
    /\ ~exited
    /\ generator = "waiting"
    /\ ~scanComplete
    /\ Commit(GeneratorLoop(RunWorkersOp(St)))

\* ----------------------------------------------------- the walker alone
\* a ledger row as the three statements leave it
LedgerRow(status, mp3Path) ==
    [mp3_path |-> mp3Path, status |-> status,
     started_at |-> <<1>>,
     completed_at |-> IF status = "processing" THEN <<>> ELSE <<1>>,
     error |-> IF status = "failed" THEN "text" ELSE "null",
     video_size |-> "size",
     mp3_size |-> IF status = "complete" THEN "size" ELSE "null"]

AllTargets(sb) == {GetOutputPath([sameBase |-> sb], v) : v \in Videos}

\* Any input tree: companions and ledger rows left by earlier runs.
AnyTree ==
    /\ sameBase \in BOOLEAN
    /\ mp3Files \in SUBSET AllTargets(sameBase)
    /\ srtFiles \in SUBSET AllTargets(sameBase)
    /\ \E D \in SUBSET Videos :
       \E f \in [Videos -> {"processing", "complete", "failed"}] :
           conversions =
               [v \in D |->
                   LedgerRow(f[v], GetOutputPath([sameBase |-> sameBase], v))]

\* The application before preflight, on any input tree; no interrupt is
\* sent and no child makes progress, so that the walk is seen as a whole.
InitWalk ==
    /\ InitCommon
    /\ appStatus = "init"
    /\ queue = FALSE
    /\ dryRun = FALSE
    /\ shutdownHandler = FALSE
    /\ AnyTree
    /\ recursive \in BOOLEAN
    /\ dirConcurrency \in {ClampDirConcurrency(c) : c \in 1..MaxScanners}

NextWalk ==
    \/ Mount
    \/ Initialize
    \/ ReaddirDone
    \/ BatchDone
    \/ RunWorkersTick

SpecWalk == InitWalk /\ [][NextWalk]_vars

\* The walk with its scheduling: every file-system call returns and the
\* timer of runWorkers keeps firing.  The walker does not read the ledger,
\* so the walk starts without one.
InitWalkLive ==
    /\ InitWalk
    /\ conversions = <<>>
    /\ sameBase = FALSE

SpecWalkLive ==
    /\ InitWalkLive
    /\ [][NextWalk]_vars
    /\ WF_vars(ReaddirDone)
    /\ WF_vars(BatchDone)
    /\ WF_vars(RunWorkersTick)

\* -------------------------------------------------- the whole pipeline
\* A child that is alive creates its output file.
ChildWrite ==
    \E j \in JobId :
        /\ ~exited
        /\ proc[j] \in {"running", "sigterm", "sigkill"}
        /\ GetOutputPath(St, jobFile[j]) \notin mp3Files
        /\ Commit([St EXCEPT !.mp3Files =
                       @ \cup {GetOutputPath(St, jobFile[j])}])

\* The application before preflight, on a tree without companions and
\* without a ledger.
InitPipe ==
    /\ InitCommon
    /\ appStatus = "init"
    /\ queue = FALSE
    /\ dryRun = FALSE
    /\ shutdownHandler = FALSE
    /\ conversions = <<>>
    /\ mp3Files = {}
    /\ srtFiles = {}
    /\ sameBase \in BOOLEAN
    /\ recursive = TRUE
    /\ dirConcurrency \in {ClampDirConcurrency(c) : c \in 1..MaxScanners}

NextPipe ==
    \/ Mount
    \/ Initialize
    \/ Sigint
    \/ ExitTimer
    \/ ReaddirDone
    \/ BatchDone
    \/ RunWorkersTick
    \/ ChildData
    \/ ChildClose
    \/ StatDone
    \/ ChildError
    \/ ChildWrite

SpecPipe == InitPipe /\ [][NextPipe]_vars

\* The application with or without the dry-run option, on a tree with any
\* companions.
InitDry ==
    /\ InitCommon
    /\ appStatus = "init"
    /\ queue = FALSE
    /\ dryRun \in BOOLEAN
    /\ shutdownHandler = FALSE
    /\ conversions = <<>>
    /\ sameBase = FALSE
    /\ mp3Files \in SUBSET AllTargets(sameBase)
    /\ srtFiles \in SUBSET AllTargets(sameBase)
    /\ recursive \in BOOLEAN
    /\ dirConcurrency = ClampDirConcurrency(DefaultDirConcurrency)

SpecDry == InitDry /\ [][NextPipe]_vars

\* ------------------------------------------------------ a second run
\* The state a new process starts with, apart from its options.
FreshProcess ==
    [pendingJobs |-> <<>>, activeJobs |-> {}, totalAdded |-> 0,
     completedCount |-> 0, failedCount |-> 0, cancelledCount |-> 0,
     isPaused |-> FALSE, isShuttingDown |-> FALSE,
     isImmediateShutdown |-> FALSE, isStarted |-> FALSE,
     isScanComplete |-> FALSE, queuePromise |-> <<>>,
     jobStatus |-> [j \in JobId |-> "none"], activeProcesses |-> {},
     activeOutputPaths |-> {}, proc |-> [j \in JobId |-> "none"],
     cb |-> [j \in JobId |-> <<>>], completions |-> <<>>,
     counted |-> [j \in JobId |-> {}], shutdownEnded |-> {},
     appStatus |-> "init", uiShuttingDown |-> FALSE, ctrlCCount |-> 0,
     queue |-> FALSE, scanning |-> FALSE, shutdownHandler |-> FALSE,
     exitTimer |-> FALSE, exited |-> FALSE, nShutdownRequests |-> 0,
     nPauses |-> 0, jobFile |-> [j \in JobId |-> 0],
     outputSize |-> [j \in JobId |-> "undefined"],
     ops |-> [j \in JobId |-> <<>>], directoryQueue |-> <<>>,
     eventBuffer |-> <<>>, activeWorkers |-> 0, scanComplete |-> FALSE,
     eventResolver |-> FALSE, walkStats |-> ZeroStats, workers |-> {},
     generator |-> "none", emitted |-> <<>>, delivered |-> <<>>,
     scanStats |-> <<>>, nFailures |-> 0, errorMsgs |-> <<>>,
     dbHandle |-> "null", duration |-> [j \in JobId |-> <<>>],
     stderrOutput |-> [j \in JobId |-> {}],
     progress |-> [j \in JobId |-> <<>>],
     jobError |-> [j \in JobId |-> "null"],
     jobProgress |-> [j \in JobId |-> 0],
     resultError |-> [j \in JobId |-> "null"], nChunks |-> 0,
     killCalls |-> <<>>, deletedFiles |-> {}, handlerLog |-> <<>>,
     effects |-> [j \in JobId |-> NoEffects], ledgerCalls |-> <<>>]

\* The program is started again with the same options on the same root:
\* the files on disk and the ledger are what the run before left.
NewProcessOp(s) ==
    [f \in DOMAIN s |->
        IF f = "runs"
        THEN Append(s.runs, [added |-> s.totalAdded,
                             completed |-> s.completedCount,
                             failed |-> s.failedCount])
        ELSE IF f \in DOMAIN FreshProcess THEN FreshProcess[f]
        ELSE s[f]]

\* the run has ended: the queue reported completion, nothing is in flight
RunEnded(s) ==
    /\ s.appStatus = "completed"
    /\ s.generator = "done"
    /\ s.pendingJobs = <<>>
    /\ s.activeJobs = {}
    /\ \A j \in JobId : s.proc[j] \in {"none", "done"}

Rerun ==
    /\ ~exited
    /\ Len(runs) < MaxReruns
    /\ RunEnded(St)
    /\ Commit(NewProcessOp(St))

\* The application run to completion, without interrupts, then again, on
\* a tree with any companions.  The tree stays readable: no readdir or
\* stat fails in either run.
InitRerun ==
    /\ InitCommon
    /\ appStatus = "init"
    /\ queue = FALSE
    /\ dryRun = FALSE
    /\ shutdownHandler = FALSE
    /\ conversions = <<>>
    /\ sameBase \in BOOLEAN
    /\ mp3Files \in SUBSET AllTargets(sameBase)
    /\ srtFiles \in SUBSET AllTargets(sameBase)
    /\ recursive = TRUE
    /\ dirConcurrency \in {ClampDirConcurrency(c) : c \in 1..MaxScanners}

\* a directory read, and a batch of stats, that succeed
ReaddirOk == ReaddirDone /\ nFailures' = nFailures

BatchOk == BatchDone /\ nFailures' = nFailures

NextRerun ==
    \/ Mount
    \/ Initialize
    \/ ReaddirOk
    \/ BatchOk
    \/ RunWorkersTick
    \/ ChildData
    \/ ChildClose
    \/ StatDone
    \/ ChildError
    \/ ChildWrite
    \/ Rerun

SpecRerun == InitRerun /\ [][NextRerun]_vars

TypeOK ==
    /\ activeJobs \subseteq JobId
    /\ totalAdded \in 0..(MaxJobs + 1)
    /\ Len(pendingJobs) <= MaxJobs + 1

\* ------------------------------------------------- the encoder driver
\* The pool while files arrive, without pause, cancel or shutdown, its
\* children emitting any chunks on stderr.
NextEnc ==
    \/ Start
    \/ AddFile
    \/ ChildChunk
    \/ ChildClose
    \/ StatDone
    \/ ChildError

SpecEnc == Init /\ [][NextEnc]_vars

\* ------------------------------------------- the ledger called directly
\* the arguments of the three writes
LedgerSizes == {"size", "other size"}

LedgerErrors == {"text", "other text"}

\* Date.now() of a call: the clock advances between calls
Now == Len(ledgerCalls) + 1

LedgerCall(call, db) ==
    /\ Len(ledgerCalls) < MaxLedgerCalls
    /\ Commit([St EXCEPT !.ledgerCalls = Append(@, call),
                         !.conversions = db])

\* startConversion(videoPath, mp3Path, videoSize?)
StartConversionCall ==
    \E v \in Videos, sb \in BOOLEAN, size \in {"null", "size"} :
        LedgerCall([op |-> "start", videoPath |-> v,
                    mp3Path |-> GetOutputPath([sameBase |-> sb], v),
                    videoSize |-> size, now |-> Now],
                   StartConversion(conversions, v,
                                   GetOutputPath([sameBase |-> sb], v),
                                   Now, size))

\* completeConversion(videoPath, mp3Size)
CompleteConversionCall ==
    \E v \in Videos, size \in LedgerSizes :
        LedgerCall([op |-> "complete", videoPath |-> v, mp3Size |-> size,
                    now |-> Now],
                   CompleteConversion(conversions, v, size, Now))

\* failConversion(videoPath, error)
FailConversionCall ==
    \E v \in Videos, error \in LedgerErrors :
        LedgerCall([op |-> "fail", videoPath |-> v, error |-> error,
                    now |-> Now],
                   FailConversion(conversions, v, error, Now))

NextLedger ==
    \/ StartConversionCall
    \/ CompleteConversionCall
    \/ FailConversionCall

\* A ledger opened on a root without a database file.
SpecLedger == Init /\ [][NextLedger]_vars

\* ------------------------------------------ a pool with cancelled jobs
\* addFile for a file beyond those of the tree
AddFileMore ==
    /\ totalAdded < MaxJobs + 1
    /\ ~isScanComplete
    /\ Commit(AddFileOp(St, totalAdded + 1))

\* The pool with cancelJob while further files arrive.
NextCancel ==
    \/ Start
    \/ AddFileMore
    \/ CancelJob
    \/ ChildClose
    \/ StatDone

SpecCancel == Init /\ [][NextCancel]_vars

\* ------------------------------------- the encoder driver called directly
\* killAllJobs(cleanupOutputs) called by the embedding program.
KillAll ==
    \E cleanupOutputs \in BOOLEAN :
        /\ Len(killCalls) < MaxKills
        /\ Commit([KillAllJobs(St, cleanupOutputs) EXCEPT
                      !.killCalls = Append(@, cleanupOutputs),
                      !.deletedFiles = KillAllDeleted(St, cleanupOutputs)])

\* The output file of a job becomes undeletable (unlinkSync will throw).
UnlinkDenied ==
    \E j \in JobId :
        /\ j <= totalAdded
        /\ GetOutputPath(St, jobFile[j]) \notin unlinkFails
        /\ Commit([St EXCEPT !.unlinkFails =
                       @ \cup {GetOutputPath(St, jobFile[j])}])

\* The pool with children that write their outputs, and the driver's
\* killJob (through cancelJob) and killAllJobs.
NextKill ==
    \/ Start
    \/ AddFile
    \/ CancelJob
    \/ ChildWrite
    \/ ChildClose
    \/ StatDone
    \/ KillAll
    \/ UnlinkDenied

SpecKill == Init /\ [][NextKill]_vars

\* The output file is gone when the close handler comes to stat it
\* (stat will throw and the handler ignores it).
OutputLost ==
    \E j \in JobId :
        /\ ~exited
        /\ proc[j] = "stat"
        /\ GetOutputPath(St, jobFile[j]) \in mp3Files
        /\ Commit([St EXCEPT !.mp3Files =
                       @ \ {GetOutputPath(St, jobFile[j])}])

\* The pool with children whose output may be missing at the stat.
NextStat ==
    \/ Start
    \/ AddFile
    \/ MarkScanComplete
    \/ ChildData
    \/ ChildClose
    \/ StatDone
    \/ OutputLost

SpecStat == Init /\ [][NextStat]_vars

\* ----------------------------------------------------- liveness variant
\* The run the pool is built for: no pause, no cancel, no shutdown; the
\* producer finishes and every child exits.
NextLive ==
    \/ Start
    \/ AddFile
    \/ MarkScanComplete
    \/ ChildData
    \/ ChildClose
    \/ StatDone
    \/ ChildError

SpecLive ==
    /\ Init
    /\ [][NextLive]_vars
    /\ WF_vars(Start)
    /\ WF_vars(MarkScanComplete)
    /\ WF_vars(ChildClose)
    /\ WF_vars(StatDone)

\* The pool draining after a graceful shutdown request: the producer may
\* still add files, and every child exits.
NextDrain ==
    \/ Start
    \/ AddFile
    \/ MarkScanComplete
    \/ RequestGracefulShutdown
    \/ ChildClose
    \/ StatDone

SpecDrain ==
    /\ Init
    /\ [][NextDrain]_vars
    /\ WF_vars(Start)
    /\ WF_vars(ChildClose)
    /\ WF_vars(StatDone)

\* ================================================================ claims
Last(q) == q[Len(q)]

Started(j) == Cardinality(Pos(cb[j], "onJobStart"))

\* C1: in every reachable state of the pool the active set holds at most
\* `concurrency` jobs, whatever the interleaving of add, start, job exits,
\* pause/resume, cancel and shutdown requests.
C1_ActiveWithinConcurrency == Cardinality(activeJobs) <= concurrency

\* The limit is binding: all slots taken while a job waits.
C1_Witness ==
    /\ Cardinality(activeJobs) = concurrency
    /\ Len(pendingJobs) > 0

\* C2 (as claimed): complete() runs at most once per pool, so
\* onQueueComplete is emitted at most once.
C2_CompleteOnce == Len(completions) <= 1

\* C3: the step in which requestImmediateShutdown runs (the flag
\* isImmediateShutdown is raised, or a completion is recorded at its call
\* site) emits onQueueComplete itself; at the emission pending and active are empty,
\* both registries' children have all been sent SIGKILL and the registry
\* of live children is empty.
C3_ImmediateCompletesInStep ==
    [][ (\/ ~isImmediateShutdown /\ isImmediateShutdown'
         \/ /\ Len(completions') > Len(completions)
            /\ Last(completions').via = "immediate")
        => /\ Len(completions') = Len(completions) + 1
           /\ Last(completions').via = "immediate"
           /\ Last(completions').pending = 0
           /\ Last(completions').active = {}
           /\ Last(completions').registered = {}
           /\ \A j \in activeProcesses : proc'[j] = "sigkill"
           /\ activeProcesses' = {} ]_vars

\* Immediate shutdown has completed the pool while a killed child has not
\* yet delivered its exit.
C3_Witness ==
    /\ Len(completions) > 0
    /\ Last(completions).via = "immediate"
    /\ \E j \in JobId : proc[j] = "sigkill"

\* C4: once graceful shutdown has been requested no child is spawned and
\* the controller adds no file; the request itself signals no child and
\* leaves the active set alone, no child is signalled while the shutdown
\* stays graceful, and the step in which the last running job leaves the
\* active set emits onQueueComplete with an empty pending queue.
C4_GracefulDrain ==
    [][ /\ isShuttingDown =>
             /\ totalAdded' = totalAdded
             /\ \A j \in JobId : proc[j] = "none" => proc'[j] = "none"
        /\ (~isShuttingDown /\ isShuttingDown' /\ ~isImmediateShutdown') =>
             /\ proc' = proc
             /\ activeProcesses' = activeProcesses
             /\ activeJobs' = activeJobs
             /\ pendingJobs' = <<>>
        /\ (isShuttingDown' /\ ~isImmediateShutdown') =>
             \A j \in JobId : proc'[j] \notin {"sigkill", "sigterm"}
        /\ (isShuttingDown /\ ~isImmediateShutdown' /\ activeJobs # {}
              /\ activeJobs' = {}) =>
             /\ Len(completions') = Len(completions) + 1
             /\ Last(completions').pending = 0 ]_vars

\* A graceful shutdown dropped a pending job, the running job exited by
\* itself and the pool then completed.
C4_Witness ==
    /\ isShuttingDown /\ ~isImmediateShutdown
    /\ cancelledCount > 0
    /\ completedCount + failedCount > 0
    /\ Len(completions) = 1
    /\ Last(completions).via = "processNext"

\* C5 (as claimed): a job ended by a shutdown request (dropped from
\* pending, or SIGKILLed while running by immediate shutdown) is counted
\* as cancelled and in no other counter.
C5_ShutdownEndedOnlyCancelled ==
    \A j \in shutdownEnded :
        /\ "cancelled" \in counted[j]
        /\ counted[j] \cap {"failed", "completed"} = {}

\* C6 (as claimed): immediate shutdown is requested only of a pool that a
\* graceful request has already put into shutdown.
C6_ImmediateAfterGraceful ==
    [][ (isImmediateShutdown' /\ ~isImmediateShutdown) => isShuttingDown ]_vars

\* C6 (amended): interrupts are counted from the start of the invocation.
\* With a pool, interrupt number 1 requests graceful shutdown and every
\* later one immediate shutdown; immediate shutdown is therefore never the
\* first interrupt, but it has no graceful request before it when the first
\* interrupt came before the pool existed.  Without a pool an interrupt
\* schedules or performs the exit, and once an interrupt has arrived with
\* no job created, no job is created.
C6_InterruptProtocol ==
    [][ /\ (ctrlCCount' = ctrlCCount + 1 /\ queue /\ ctrlCCount' = 1) =>
             (isShuttingDown' /\ ~isImmediateShutdown')
        /\ (ctrlCCount' = ctrlCCount + 1 /\ queue /\ ctrlCCount' >= 2) =>
             isImmediateShutdown'
        /\ (isImmediateShutdown' /\ ~isImmediateShutdown) =>
             (ctrlCCount >= 1 /\ (isShuttingDown \/ totalAdded = 0))
        /\ (ctrlCCount' = ctrlCCount + 1 /\ ~queue) =>
             ((exitTimer' \/ exited') /\ ~queue' /\ totalAdded' = 0)
        /\ (ctrlCCount >= 1 /\ totalAdded = 0) => totalAdded' = 0 ]_vars

\* Two interrupts reached a pool that holds jobs: graceful, then immediate.
C6_Witness ==
    /\ queue
    /\ ctrlCCount = 2
    /\ isImmediateShutdown
    /\ totalAdded > 0

\* C7: the callbacks of one job come in the order onFileAdded, onJobStart,
\* onJobProgress*, onJobComplete, with nothing after onJobComplete; a job
\* that ran, was not cancelled and whose result has been handled has
\* exactly one onJobComplete.
WellOrdered(q) ==
    /\ Len(q) >= 1 => q[1] = "onFileAdded"
    /\ Len(q) >= 2 => q[2] = "onJobStart"
    /\ \A i \in 3..Len(q) :
         /\ q[i] \in {"onJobProgress", "onJobComplete"}
         /\ q[i] = "onJobComplete" => i = Len(q)

C7_CallbackOrder ==
    \A j \in JobId :
        /\ WellOrdered(cb[j])
        /\ (j <= totalAdded) = (Len(cb[j]) >= 1)
        /\ (proc[j] # "none") = (Len(cb[j]) >= 2)
        /\ (proc[j] = "done" /\ "cancelled" \notin counted[j]) =>
             Cardinality(Pos(cb[j], "onJobComplete")) = 1

\* A job went through all four callbacks.
C7_Witness ==
    \E j \in JobId :
        cb[j] = <<"onFileAdded", "onJobStart", "onJobProgress",
                  "onJobComplete">>

\* C8: with no shutdown, pause or cancel, every child exiting and the scan
\* marked complete, the pool ends up having emitted onQueueComplete exactly
\* once, with completed + failed = total = all added jobs and cancelled = 0,
\* every added job having been started exactly once; it never emits twice
\* and never starts a job twice.
C8_Terminates ==
    /\ [](Len(completions) <= 1 /\ \A j \in JobId : Started(j) <= 1)
    /\ <>[](/\ Len(completions) = 1
            /\ queuePromise = <<completions[1].summary>>
            /\ completions[1].summary.total = totalAdded
            /\ completions[1].summary.completed
                 + completions[1].summary.failed = totalAdded
            /\ completions[1].summary.cancelled = 0
            /\ \A j \in JobId : j <= totalAdded => Started(j) = 1)

\* All the files were added, ran and the pool completed.
C8_Witness ==
    /\ Len(completions) = 1
    /\ totalAdded = MaxJobs
    /\ completedCount + failedCount = MaxJobs
    /\ completedCount > 0

\* C9: while the scan is not marked complete and no shutdown was requested
\* the pool has not completed.
C9_NoEarlyCompletion ==
    (~isScanComplete /\ ~isShuttingDown) => Len(completions) = 0

\* The started pool ran out of work before the scan completed and waits.
C9_Witness ==
    /\ isStarted /\ ~isScanComplete /\ ~isShuttingDown
    /\ Len(pendingJobs) = 0 /\ activeJobs = {}
    /\ completedCount + failedCount > 0
    /\ Len(completions) = 0

\* C10: hot start.  A started pool that is neither paused nor shutting
\* down has all its slots taken or nothing pending; a job added while a
\* slot is free is started in the step that adds it.
C10_HotStart ==
    /\ []((isStarted /\ ~isPaused /\ ~isShuttingDown) =>
            (Cardinality(activeJobs) = concurrency \/ Len(pendingJobs) = 0))
    /\ [][ (/\ totalAdded' = totalAdded + 1
            /\ isStarted /\ ~isPaused /\ ~isShuttingDown
            /\ Cardinality(activeJobs) < concurrency) =>
             (/\ totalAdded' \in activeJobs'
              /\ proc'[totalAdded'] = "running") ]_vars

\* A job is running although the scan has not been marked complete.
C10_Witness ==
    /\ isStarted /\ ~isScanComplete /\ ~isPaused /\ ~isShuttingDown
    /\ \E j \in JobId : j \in activeJobs /\ proc[j] = "running"

\* ------------------------------------------------------------------ C11
IsTerminalWrite(x) == x \in {"Ledger.complete", "Ledger.fail"}

Handled(j) == Pos(ops[j], "onJobComplete") # {}

LedgerComplete(v) ==
    /\ v \in DOMAIN conversions
    /\ conversions[v].status = "complete"
    /\ conversions[v].mp3_size # "null"

\* C12: once a job's completion has been handled, the job is in state
\* completed if and only if the ledger record of its source is complete
\* with the size of the output recorded.
C12_CompletedIffLedgerComplete ==
    \A j \in JobId :
        Handled(j) =>
            (jobStatus[j] = "completed" <=> LedgerComplete(jobFile[j]))

\* ------------------------------------------------------------------ C13
TerminalWrites(j) == {i \in 1..Len(ops[j]) : IsTerminalWrite(ops[j][i])}

\* a job whose child was killed by an immediate shutdown request
AbortedByImmediate(j) == j \in shutdownEnded /\ Pos(ops[j], "spawn") # {}

\* C13: every Ledger.start of a job is followed by at most one terminal
\* ledger write (complete or fail, never both), and by none for a job
\* aborted by immediate shutdown, whose record stays in state processing.
C13_TerminalWrites ==
    \A j \in JobId :
        /\ Cardinality(TerminalWrites(j)) <= 1
        /\ AbortedByImmediate(j) =>
               /\ TerminalWrites(j) = {}
               /\ jobFile[j] \in DOMAIN conversions
               /\ conversions[jobFile[j]].status = "processing"

\* ------------------------------------------------------------------ C14
InFlight(j) ==
    \/ \E i \in 1..Len(pendingJobs) : pendingJobs[i] = j
    \/ j \in activeJobs

\* events of the walker that report a candidate video file
Candidates(q) == {i \in 1..Len(q) : q[i].type \in {"file", "skipped"}}

\* C14: no two jobs that are pending or running have the same source
\* path; the walker emits each candidate file at most once per walk, and
\* no job is started (Ledger.start, spawn) more than once.
C14_OneJobPerSource ==
    /\ \A i, j \in JobId :
           InFlight(i) /\ InFlight(j) /\ i # j => jobFile[i] # jobFile[j]
    /\ \A a, b \in Candidates(emitted) :
           a # b => emitted[a].id # emitted[b].id
    /\ \A j \in JobId :
           /\ Cardinality(Pos(ops[j], "spawn")) <= 1
           /\ Cardinality(Pos(ops[j], "Ledger.start")) <= 1

C14_Witness ==
    /\ \E i, j \in JobId : i # j /\ InFlight(i) /\ InFlight(j)
    /\ Cardinality(Candidates(emitted)) >= 2

\* ------------------------------------------------------------------ C15
\* C15: no two jobs that are running at the same time have the same
\* target path, whatever files the walker discovers.
C15_ExclusiveTarget ==
    \A i, j \in activeJobs :
        i # j => GetOutputPath(St, jobFile[i]) # GetOutputPath(St, jobFile[j])

\* ------------------------------------------------------------------ C16
\* the event the classification rule of the claim gives for video v
RuleEvent(s, v) ==
    IF HasSRT(s, v) THEN Event("skipped", v, "srt")
    ELSE IF /\ v \in DOMAIN s.conversions
            /\ s.conversions[v].status = "complete"
            /\ HasMP3(s, v)
    THEN Event("skipped", v, "mp3")
    ELSE Event("file", v, "")

\* C16: every candidate event the walker pushes is skipped(srt) if the
\* .srt companion exists, otherwise skipped(mp3) exactly when the ledger
\* row of the video is complete and the target .mp3 exists, otherwise
\* file; companions and ledger are those at the time of the classification.
C16_Classification ==
    [][\A i \in (Len(emitted) + 1)..Len(emitted') :
          emitted'[i].type \in {"file", "skipped"} =>
              emitted'[i] = RuleEvent(St, emitted'[i].id)]_vars

\* ------------------------------------------------------------------ C17
CompletePos(q) == {i \in 1..Len(q) : q[i].type = "complete"}

NonComplete(q) == SelectSeq(q, LAMBDA e : e.type # "complete")

WalkEventsInOrder ==
    /\ Cardinality(CompletePos(delivered)) <= 1
    /\ \A i \in CompletePos(delivered) : i = Len(delivered)
    /\ NonComplete(delivered) \o eventBuffer = emitted
    /\ Len(delivered) <= MaxDirs + MaxJobs + 1

WalkComplete ==
    /\ generator = "done"
    /\ CompletePos(delivered) = {Len(delivered)}
    /\ NonComplete(delivered) = emitted
    /\ directoryQueue = <<>>
    /\ activeWorkers = 0
    /\ workers = {}
    /\ eventBuffer = <<>>
    /\ scanStats = <<walkStats>>

\* C17: the walk of a finite tree always reaches its end, where the
\* stream is bounded in length, exactly one complete event carrying the
\* stats has been delivered, as the last event, with the directory queue
\* empty, no worker active, and every event the workers pushed delivered
\* before it, in the order pushed.
C17_WalkEnds ==
    (generator = "waiting") ~> (WalkComplete /\ WalkEventsInOrder)

C17_Witness ==
    /\ generator = "done"
    /\ Len(delivered) = MaxDirs + MaxJobs + 1
    /\ dirConcurrency > 1

\* ------------------------------------------------------------------ C18
ErrorPos(q) == {i \in 1..Len(q) : q[i].type = "error"}

\* the events of type tp that name directory d
DirEvents(q, tp, d) == {i \in 1..Len(q) : q[i].type = tp /\ q[i].id = d}

\* the directories the walk has to visit: the root, and its subdirectories
\* when the walk is recursive and the root could be read
ToVisit ==
    {1} \cup (IF recursive /\ DirEvents(emitted, "directory", 1) # {}
              THEN Subdirs(1) ELSE {})

\* the video files of the directories that were read
FilesOfReadDirs ==
    {v \in Videos : DirEvents(emitted, "directory", VideoDir(v)) # {}}

\* one step of the walk: as many error events and as many increments of
\* the errors counter as calls that failed in the step
StepErrors ==
    LET new == (Len(emitted) + 1)..Len(emitted')
    IN  /\ Cardinality({i \in new : emitted'[i].type = "error"})
               = nFailures' - nFailures
        /\ walkStats'.errors - walkStats.errors = nFailures' - nFailures

\* at the end of the walk everything that did not fail was processed
AllProcessed ==
    /\ Cardinality(ErrorPos(emitted)) = nFailures
    /\ walkStats.errors = nFailures
    /\ \A d \in Dirs :
           Cardinality(DirEvents(emitted, "directory", d))
             + Cardinality(DirEvents(emitted, "error", d))
               = IF d \in ToVisit THEN 1 ELSE 0
    /\ \A i \in Candidates(emitted) : emitted[i].id \in FilesOfReadDirs
    /\ \A i, j \in Candidates(emitted) :
           i # j => emitted[i].id # emitted[j].id
    /\ Cardinality(Candidates(emitted))
         + Cardinality(DirEvents(emitted, "error", 0))
           = Cardinality(FilesOfReadDirs)
    /\ walkStats.totalFound = Cardinality(Candidates(emitted))

\* C18: every readdir or stat that fails yields exactly one error event
\* and one increment of the errors counter, in the step in which it
\* fails; the walk still ends with the complete event, every directory
\* to visit has then been read or reported as an error exactly once, and
\* every video file of a directory that was read has its candidate event
\* unless its own stat failed.
C18_ErrorsIsolated ==
    /\ [][StepErrors]_vars
    /\ (generator = "waiting") ~> (WalkComplete /\ AllProcessed)

C18_Witness ==
    /\ generator = "done"
    /\ nFailures >= 1
    /\ ErrorPos(delivered) # {}
    /\ Candidates(delivered) # {}

\* ------------------------------------------------------------------ C19
\* the outcome of the run before this one
LastRun == runs[Len(runs)]

Reachable == {v \in Videos : VideoDir(v) = 1 \/ recursive}

\* what a dry run has reported: nothing, or one report whose counts add up
\* and, when nothing failed, cover every video of the tree
DryRunReport ==
    \/ scanStats = <<>>
    \/ /\ Len(scanStats) = 1
       /\ appStatus = "completed"
       /\ scanStats[1].totalFound = scanStats[1].toProcess
               + scanStats[1].skippedMP3 + scanStats[1].skippedSRT
       /\ scanStats[1].totalFound <= Cardinality(Reachable)
       /\ nFailures = 0 =>
              /\ scanStats[1].totalFound = Cardinality(Reachable)
              /\ scanStats[1].skippedSRT =
                     Cardinality({v \in Reachable : HasSRT(St, v)})
              /\ scanStats[1].skippedMP3 =
                     Cardinality({v \in Reachable :
                                     HasMP3(St, v) /\ ~HasSRT(St, v)})

\* C20: in a dry run no ledger row is written, no job is created, no
\* pool is opened, no encoder child is spawned and no file is created or
\* removed at any step; the only result is the report of the scan.
C20_DryRunPure ==
    [][dryRun =>
          /\ conversions' = conversions
          /\ ops' = ops
          /\ totalAdded' = 0
          /\ pendingJobs' = <<>>
          /\ activeJobs' = {}
          /\ jobStatus' = jobStatus
          /\ proc' = proc
          /\ activeProcesses' = {}
          /\ queue' = FALSE
          /\ mp3Files' = mp3Files
          /\ srtFiles' = srtFiles
          /\ DryRunReport']_vars

C20_Witness ==
    /\ dryRun
    /\ appStatus = "completed"
    /\ scanStats # <<>>
    /\ scanStats[1].toProcess >= 1
    /\ scanStats[1].skippedMP3 >= 1

\* ------------------------------------------------------------------ C21
\* the child of job j has just failed: a non-zero exit of a live child,
\* or a spawn error
ChildFails(j) ==
    /\ proc[j] \in {"running", "sigterm", "sigkill"}
    /\ proc'[j] \in {"done", "errored"}

\* C21: the step in which a child exits non-zero or fails to spawn leaves
\* its job failed, counted as failed once more and out of the active
\* set; it changes neither the pause nor the shutdown flags, it leaves a
\* running pool with all slots taken or nothing pending, and it completes
\* the pool only when nothing is pending or active and the scan is
\* complete or a shutdown was requested.  The exit that follows a spawn
\* error counts nothing, and failed always equals the number of jobs
\* counted as failed.
C21_FailureIsLocal ==
    /\ [](failedCount = Cardinality({j \in JobId : "failed" \in counted[j]}))
    /\ [][ /\ \A j \in JobId : ChildFails(j) =>
                 /\ jobStatus'[j] = "failed"
                 /\ failedCount' = failedCount + 1
                 /\ "failed" \in counted'[j]
                 /\ j \notin activeJobs'
                 /\ isPaused' = isPaused
                 /\ isShuttingDown' = isShuttingDown
                 /\ isImmediateShutdown' = isImmediateShutdown
                 /\ isStarted' = isStarted
                 /\ (~isPaused /\ ~isShuttingDown) =>
                        (\/ Cardinality(activeJobs') = concurrency
                         \/ Len(pendingJobs') = 0)
                 /\ Len(completions') > Len(completions) =>
                        /\ Len(pendingJobs) = 0
                        /\ activeJobs \subseteq {j}
                        /\ isScanComplete \/ isShuttingDown
        /\ \A k \in JobId :
                 (proc[k] = "errored" /\ proc'[k] = "done") =>
                     /\ failedCount' = failedCount
                     /\ jobStatus'[k] = "failed" ]_vars

\* A job failed and the job that waited behind it was started by the
\* failure's continuation.
C21_Witness ==
    /\ concurrency = 1
    /\ \E i, j \in JobId :
           /\ jobStatus[i] = "failed" /\ proc[i] \in {"done", "errored"}
           /\ "cancelled" \notin counted[i]
           /\ proc[j] = "running" /\ j \in activeJobs
    /\ Len(completions) = 0

\* ------------------------------------------------------------------ C22
\* nothing of the processing exists: no ledger handle, no pool, no job,
\* no child, no walk
NothingStarted ==
    /\ dbHandle = "null"
    /\ ~queue
    /\ ~isStarted
    /\ totalAdded = 0
    /\ pendingJobs = <<>>
    /\ activeJobs = {}
    /\ \A j \in JobId : proc[j] = "none" /\ jobStatus[j] = "none"
    /\ activeProcesses = {}
    /\ generator = "none"
    /\ scanStats = <<>>

\* C22: a failed check of the encoder binary or of the input root puts
\* the controller into the error state in the same step, with that one
\* message; the controller then stays in the error state, and in the
\* error state the ledger is not open, there is no pool, no job and no
\* child, and the message is the only one ever set.
C22_PreflightFailure ==
    /\ [](appStatus = "error" =>
            /\ errorMsgs \in {<<"ffmpeg">>, <<"input">>}
            /\ NothingStarted)
    /\ [][ /\ (errorMsgs' # errorMsgs
                /\ Last(errorMsgs') \in {"ffmpeg", "input"}) =>
                   appStatus' = "error"
           /\ appStatus = "error" =>
                   (appStatus' = "error" /\ errorMsgs' = errorMsgs) ]_vars

\* The input root was rejected and an interrupt arrived afterwards.
C22_Witness ==
    /\ appStatus = "error"
    /\ errorMsgs = <<"input">>
    /\ ctrlCCount >= 1

\* ------------------------------------------------------------------ C23
\* C23: the percents passed to onJobProgress for one job never decrease
\* and all lie between 0 and 100, whatever chunks the child emits.
C23_ProgressMonotone ==
    \A j \in JobId :
        /\ \A i \in 1..Len(progress[j]) :
               progress[j][i][1] >= 0 /\ progress[j][i][1] <= 100
        /\ \A i \in 1..(Len(progress[j]) - 1) :
               progress[j][i + 1][1] >= progress[j][i][1]

\* C24: a call of killAllJobs hard-kills every registered child and leaves
\* both registries empty; with cleanupOutputs it deletes every registered
\* target path that exists and can be deleted and returns exactly the
\* paths it deleted; without, it deletes no file and returns nothing.
C24_KillAll ==
    [][Len(killCalls') > Len(killCalls) =>
          LET cleanupOutputs == killCalls'[Len(killCalls')]
              targets == {GetOutputPath(St, jobFile[j]) :
                             j \in activeOutputPaths}
          IN  /\ \A j \in activeProcesses : proc'[j] = "sigkill"
              /\ activeProcesses' = {}
              /\ activeOutputPaths' = {}
              /\ cleanupOutputs =>
                     /\ mp3Files' = mp3Files \ (targets \ unlinkFails)
                     /\ deletedFiles' = mp3Files \ mp3Files'
              /\ ~cleanupOutputs =>
                     /\ mp3Files' = mp3Files
                     /\ deletedFiles' = {}]_vars

\* A handler that emitted the callbacks of log emitted a before b.
EmittedBefore(log, a, b) ==
    \E x, y \in 1..Len(log) : x < y /\ log[x] = a /\ log[y] = b

\* the callbacks of log include e
Emitted(log, e) == \E i \in 1..Len(log) : log[i] = e

\* C25: when the continuation of a finished job runs while a job is
\* pending and the pool is neither paused nor shutting down, the
\* onJobStart of the next pending job is emitted before the onJobComplete
\* of the finished one.
C25_DispatchBeforeCallback ==
    [][\A j \in JobId :
          (/\ Emitted(handlerLog', <<"onJobComplete", j>>)
           /\ Len(pendingJobs) > 0
           /\ ~isPaused
           /\ ~isShuttingDown)
          => EmittedBefore(handlerLog',
                           <<"onJobStart", Head(pendingJobs)>>,
                           <<"onJobComplete", j>>)]_vars

\* the patterns of the close handler in the order it tests them, and the
\* message of each
ErrorPriority ==
    <<"No such file or directory", "Permission denied", "Invalid data found",
      "No space left on device", "Unknown encoder">>

ErrorKind ==
    <<"Input file not found", "Permission denied",
      "Invalid or corrupted input file", "Disk full",
      "Audio codec not available">>

\* the job's child has closed with a non-zero exit code
ClosedNonZero(j) == proc[j] = "done" /\ jobStatus[j] = "failed"

\* C26: after a non-zero exit the job's error is the kind of the first
\* pattern, in priority order, that the captured output contains, whatever
\* other patterns it contains; it is the exit-code kind when it contains
\* none.
C26_ErrorPriority ==
    \A j \in JobId :
        ClosedNonZero(j) =>
            LET hits == {i \in 1..Len(ErrorPriority) :
                            ErrorPriority[i] \in stderrOutput[j]}
            IN  jobError[j] =
                    IF hits = {} THEN "FFmpeg exited with code"
                    ELSE ErrorKind[CHOOSE i \in hits :
                                       \A k \in hits : i <= k]

C26_Witness ==
    \E j \in JobId :
        /\ ClosedNonZero(j)
        /\ stderrOutput[j] = {"Permission denied", "Unknown encoder",
                              "No space left on device"}
        /\ jobError[j] = "Permission denied"
        /\ resultError[j] = "Permission denied"

\* C27: every percent passed to onProgress for a parsed current time and a
\* known positive duration is min(100, floor(100 * current / duration)).
C27_PercentIsFloor ==
    \A j \in JobId :
        \A i \in 1..Len(progress[j]) :
            (duration[j] # <<>> /\ duration[j][1] > 0) =>
                progress[j][i][1] =
                    Min(100, (100 * progress[j][i][2]) \div duration[j][1])

\* C28: in every state the jobs registered in the encoder driver's map of
\* active children are exactly the jobs of the pool's active set.
C28_RegistryMirrorsActive == activeProcesses = activeJobs

\* C29: whichever of a child's exit and a kill of it comes first, the
\* handler that comes second finds no registry entry and completes
\* without effect: each of the job's two registry entries is deleted at
\* most once, its output file is unlinked at most once, its result is
\* delivered at most once, and once the child has exited the job is in
\* neither registry.
C29_ExitAndKillOnce ==
    \A j \in JobId :
        /\ effects[j].deregistered <= 1
        /\ effects[j].pathDeregistered <= 1
        /\ effects[j].unlinked <= 1
        /\ Cardinality(Pos(cb[j], "onJobComplete")) <= 1
        /\ proc[j] \in {"stat", "done"} =>
               j \notin activeProcesses \cup activeOutputPaths

\* Both orders: a job killed by killAllJobs, its output unlinked, whose
\* child then exited; and a job whose child had exited when killJob was
\* called for it.
C29_Witness ==
    /\ \E j \in JobId :
           /\ effects[j].unlinked = 1
           /\ effects[j].exitMissed
           /\ proc[j] = "done"
    /\ \E j \in JobId :
           /\ effects[j].killMissed
           /\ ~effects[j].exitMissed
           /\ proc[j] = "done"

\* the handler that just ran was resume()
Resumed == handlerLog # <<>> /\ handlerLog[1] = <<"resume", 0>>

\* the jobs a dispatch starts: the first pending ones that fit the free
\* slots
FreeSlots == Max(0, concurrency - Cardinality(activeJobs))

Dispatched ==
    {pendingJobs[i] : i \in 1..Min(Len(pendingJobs), FreeSlots)}

\* C30: no step that leaves the pool paused starts a job, and pause()
\* itself leaves the running jobs and the pending queue as they are;
\* resume() clears the pause and starts the first pending jobs up to the
\* concurrency limit, except that resume() after a shutdown request
\* changes nothing.
C30_PauseResume ==
    [][/\ isPaused' =>
            \A j \in JobId : proc[j] = "none" => proc'[j] = "none"
       /\ (~isPaused /\ isPaused') =>
            /\ proc' = proc
            /\ activeJobs' = activeJobs
            /\ activeProcesses' = activeProcesses
            /\ pendingJobs' = pendingJobs
       /\ (Resumed' /\ ~isShuttingDown) =>
            /\ ~isPaused'
            /\ activeJobs' = activeJobs \cup Dispatched
            /\ \A j \in Dispatched : proc'[j] = "running"
            /\ pendingJobs' = SubSeq(pendingJobs, Cardinality(Dispatched) + 1,
                                     Len(pendingJobs))
            /\ \A j \in JobId \ Dispatched : proc'[j] = proc[j]
       /\ (Resumed' /\ isShuttingDown) => St' = St]_vars

\* resume() has just started a job that was held back while the only
\* slot was free, after another job had run to its exit.
C30_Witness ==
    /\ Resumed
    /\ ~isPaused
    /\ concurrency = 1
    /\ \E j, k \in JobId :
           /\ Emitted(handlerLog, <<"onJobStart", j>>)
           /\ proc[k] = "done"
           /\ jobStatus[k] = "completed"

\* the handler that just ran was cancelJob(j); it returned value
CancelCalled(log, j) == log # <<>> /\ log[1] = <<"cancelJob", j>>

Returned(log, value, j) == log # <<>> /\ log[Len(log)] = <<value, j>>

IsPending(j) == \E i \in 1..Len(pendingJobs) : pendingJobs[i] = j

\* what a job is to the pool while cancelJob cannot act on it
PoolUnchanged ==
    /\ pendingJobs' = pendingJobs
    /\ activeJobs' = activeJobs
    /\ jobStatus' = jobStatus
    /\ proc' = proc
    /\ activeProcesses' = activeProcesses
    /\ activeOutputPaths' = activeOutputPaths
    /\ cb' = cb
    /\ counted' = counted
    /\ <<completedCount, failedCount, cancelledCount>>' =
           <<completedCount, failedCount, cancelledCount>>

\* cancelJob(j) on a pending job
CancelPending(j) ==
    /\ Returned(handlerLog', "true", j)
    /\ pendingJobs' = SelectSeq(pendingJobs, LAMBDA x : x # j)
    /\ activeJobs' = activeJobs
    /\ proc' = proc
    /\ jobStatus'[j] = "cancelled"
    /\ cancelledCount' = cancelledCount + 1
    /\ "cancelled" \notin counted[j]

\* cancelJob(j) on a running job, apart from the dispatch
CancelRunning(j) ==
    /\ Returned(handlerLog', "true", j)
    /\ proc'[j] = "sigterm"
    /\ j \notin activeJobs'
    /\ cancelledCount' = cancelledCount + 1
    /\ "cancelled" \notin counted[j]

\* a job that was cancelled while pending is never started
CancelledStaysOut ==
    \A j \in JobId :
        (proc[j] = "none" /\ "cancelled" \in counted[j]) =>
            (proc'[j] = "none" /\ ~IsPending(j)')

\* C31: cancelJob on a pending job removes it from the queue for good and
\* counts it cancelled once; on a running job it signals the child,
\* removes the job from the active set, counts it cancelled once and
\* starts the next pending job; on any other id it returns false and
\* changes nothing.
C31_Cancel ==
    [][/\ CancelledStaysOut
       /\ \A j \in JobId :
            CancelCalled(handlerLog', j) =>
                /\ IsPending(j) => CancelPending(j)
                /\ (~IsPending(j) /\ j \in activeJobs) =>
                       /\ CancelRunning(j)
                       /\ Len(pendingJobs) > 0 =>
                              proc'[Head(pendingJobs)] = "running"
                /\ (~IsPending(j) /\ j \notin activeJobs) =>
                       /\ Returned(handlerLog', "false", j)
                       /\ PoolUnchanged]_vars

\* C31 as the code has it: a running job can be cancelled while its child
\* is registered, and the dispatch that follows is that of processNext
\* (none while the pool is paused or shutting down); for a job whose
\* child has exited and whose result is not yet delivered, cancelJob
\* returns false and changes nothing.
C31_CancelRegistered ==
    [][/\ CancelledStaysOut
       /\ \A j \in JobId :
            CancelCalled(handlerLog', j) =>
                /\ IsPending(j) => CancelPending(j)
                /\ (~IsPending(j) /\ j \in activeJobs \cap activeProcesses) =>
                       /\ CancelRunning(j)
                       /\ IF isPaused \/ isShuttingDown
                          THEN pendingJobs' = pendingJobs
                          ELSE Len(pendingJobs) > 0 =>
                                   /\ proc'[Head(pendingJobs)] = "running"
                                   /\ Head(pendingJobs) \in activeJobs'
                /\ (~IsPending(j) /\ j \notin activeJobs \cap activeProcesses) =>
                       /\ Returned(handlerLog', "false", j)
                       /\ PoolUnchanged]_vars

\* cancelJob has just signalled a running job and started the next one.
C31_Witness ==
    \E j, k \in JobId :
        /\ CancelCalled(handlerLog, j)
        /\ Returned(handlerLog, "true", j)
        /\ proc[j] = "sigterm"
        /\ counted[j] = {"cancelled"}
        /\ Emitted(handlerLog, <<"onJobStart", k>>)
        /\ proc[k] = "running"

\* the ledger call that just ran, when it was op
LastCall == ledgerCalls[Len(ledgerCalls)]

Called(op) ==
    Len(ledgerCalls') > Len(ledgerCalls) /\ LastCall'.op = op

\* the rows of all other sources are as they were
OthersUnchanged(v) ==
    /\ DOMAIN conversions' \ {v} = DOMAIN conversions \ {v}
    /\ \A k \in DOMAIN conversions \ {v} : conversions'[k] = conversions[k]

\* C32: after Ledger.start(source, target, source_bytes), whatever was
\* written before, the ledger has the record of source in state
\* processing with the target, time and size of this call and with
\* completed_at, error and output_bytes cleared; every other record is
\* unchanged.
C32_StartReplaces ==
    [][Called("start") =>
          LET c == LastCall'
          IN  /\ c.videoPath \in DOMAIN conversions'
              /\ conversions'[c.videoPath] =
                     [mp3_path |-> c.mp3Path, status |-> "processing",
                      started_at |-> <<c.now>>, completed_at |-> <<>>,
                      error |-> "null", video_size |-> c.videoSize,
                      mp3_size |-> "null"]
              /\ OthersUnchanged(c.videoPath)]_vars

\* a source started, completed and started again, another one failed
C32_Witness ==
    /\ Len(ledgerCalls) = MaxLedgerCalls
    /\ LastCall.op = "start"
    /\ \E i \in 1..(Len(ledgerCalls) - 1) :
           /\ ledgerCalls[i].op = "complete"
           /\ ledgerCalls[i].videoPath = LastCall.videoPath
    /\ conversions[LastCall.videoPath].status = "processing"
    /\ conversions[LastCall.videoPath].mp3_size = "null"

\* C33: Ledger.complete and Ledger.fail set state, completed_at and the
\* output size or the error of the existing record of source and nothing
\* else: target, started_at and source size stay as start wrote them, the
\* other records are unchanged, and no record is created for a source
\* that has none.
C33_UpdateFrame ==
    [][(Called("complete") \/ Called("fail")) =>
          LET c == LastCall'
              v == c.videoPath
          IN  /\ OthersUnchanged(v)
              /\ v \notin DOMAIN conversions => v \notin DOMAIN conversions'
              /\ v \in DOMAIN conversions =>
                     /\ v \in DOMAIN conversions'
                     /\ conversions'[v] =
                            IF c.op = "complete"
                            THEN [conversions[v] EXCEPT
                                     !.status = "complete",
                                     !.completed_at = <<c.now>>,
                                     !.mp3_size = c.mp3Size]
                            ELSE [conversions[v] EXCEPT
                                     !.status = "failed",
                                     !.completed_at = <<c.now>>,
                                     !.error = c.error]]_vars

\* a started record was completed later, and a call for a source
\* without a record created none
C33_Witness ==
    /\ Len(ledgerCalls) = MaxLedgerCalls
    /\ ledgerCalls[1].op = "fail"
    /\ ledgerCalls[2].op = "start"
    /\ LastCall.op = "complete"
    /\ LastCall.videoPath = ledgerCalls[2].videoPath
    /\ DOMAIN conversions = {LastCall.videoPath}
    /\ conversions[LastCall.videoPath].started_at = <<2>>
    /\ conversions[LastCall.videoPath].completed_at = <<3>>

\* the transitions of job.status the lifecycle allows
Lifecycle ==
    {<<"none", "pending">>, <<"pending", "running">>,
     <<"running", "completed">>, <<"running", "failed">>,
     <<"pending", "cancelled">>, <<"running", "cancelled">>}

Statuses ==
    {"none", "pending", "running", "completed", "failed", "cancelled"}

\* one or more lifecycle transitions in a row (one handler can make
\* several: addFile creates a job and starts it)
RECURSIVE Along(_, _, _)
Along(a, b, n) ==
    \/ <<a, b>> \in Lifecycle
    \/ /\ n > 1
       /\ \E c \in Statuses : <<a, c>> \in Lifecycle /\ Along(c, b, n - 1)

\* C34: job.status changes only along pending -> running -> completed or
\* failed and pending or running -> cancelled; a completed, failed or
\* cancelled job keeps its status, also when its child exits after a
\* cancel or a shutdown request.
C34_Lifecycle ==
    [][\A j \in JobId :
          jobStatus'[j] # jobStatus[j] =>
              Along(jobStatus[j], jobStatus'[j], Cardinality(Statuses))]_vars

\* a job dropped from the queue by a shutdown request stays cancelled
\* while the child of a job that was running at an immediate shutdown
\* has exited
C34_Witness ==
    \E j, k \in JobId :
        /\ jobStatus[j] = "cancelled"
        /\ isImmediateShutdown
        /\ k \in shutdownEnded
        /\ proc[k] = "done"
        /\ jobStatus[k] = "failed"

\* C35: a completed job has progress 100, a recorded output size and no
\* error text; a failed job has an error text.
C35_Fields ==
    \A j \in JobId :
        /\ jobStatus[j] = "completed" =>
               /\ jobProgress[j] = 100
               /\ outputSize[j] # "undefined"
               /\ jobError[j] = "null"
        /\ jobStatus[j] = "failed" => jobError[j] # "null"

\* job j becomes completed in this step
Completes(j) == jobStatus[j] # "completed" /\ jobStatus'[j] = "completed"

\* C35 (amended): a completed job has progress 100 and no error text, and
\* its output size is recorded exactly when the output file was there at
\* the stat; a failed job has an error text.
C35_FieldsStat ==
    /\ [](\A j \in JobId :
            /\ jobStatus[j] = "completed" =>
                   jobProgress[j] = 100 /\ jobError[j] = "null"
            /\ jobStatus[j] = "failed" => jobError[j] # "null")
    /\ [][\A j \in JobId :
            /\ Completes(j) =>
                   (outputSize'[j] # "undefined"
                        <=> GetOutputPath(St, jobFile[j]) \in mp3Files)
            /\ jobStatus[j] = "completed" => outputSize'[j] = outputSize[j]
         ]_vars

\* one job completed without an output size, another with one
C35_Witness ==
    \E j, k \in JobId :
        /\ jobStatus[j] = "completed" /\ outputSize[j] = "undefined"
        /\ jobStatus[k] = "completed" /\ outputSize[k] = "size"

\* C36: in every summary emitted, completed + failed + cancelled is the
\* number of jobs added.
C36_SummaryBalanced ==
    \A i \in DOMAIN completions :
        LET summary == completions[i].summary
        IN  summary.completed + summary.failed + summary.cancelled
                = summary.total

\* callback name is emitted by this step, for any job
Emits(log, name) == \E i \in DOMAIN log : log[i][1] = name

\* in the callbacks of one handler, no onJobComplete follows an
\* onQueueComplete
CompleteLast(log) ==
    \A i, k \in DOMAIN log :
        log[i][1] = "onQueueComplete" /\ log[k][1] = "onJobComplete" => k < i

\* C37: no onJobComplete is emitted after onQueueComplete, neither by a
\* later handler nor later in the handler that emitted onQueueComplete.
C37_NoJobCompleteAfterQueueComplete ==
    [][/\ completions # <<>> => ~Emits(handlerLog', "onJobComplete")
       /\ CompleteLast(handlerLog')]_vars

\* C38: once a graceful shutdown is requested on a started pool,
\* onQueueComplete is eventually emitted, whatever is added meanwhile.
C38_DrainCompletes ==
    (isStarted /\ isShuttingDown) ~> (completions # <<>>)

\* the number of events of q of type tp and reason rs
NEvents(q, tp, rs) ==
    Cardinality({i \in 1..Len(q) : q[i].type = tp /\ q[i].reason = rs})

\* C39: when the complete event has been delivered, the stats it carries
\* count the events delivered before it: totalFound is the sum of
\* toProcess and the two skipped counters, toProcess the number of file
\* events, each skipped counter the number of skipped events of its
\* reason, and errors the number of error events.
C39_StatsCountEvents ==
    generator = "done" =>
        /\ scanStats = <<walkStats>>
        /\ walkStats.totalFound =
               walkStats.toProcess + walkStats.skippedMP3
                   + walkStats.skippedSRT
        /\ walkStats.toProcess = NEvents(delivered, "file", "")
        /\ walkStats.skippedMP3 = NEvents(delivered, "skipped", "mp3")
        /\ walkStats.skippedSRT = NEvents(delivered, "skipped", "srt")
        /\ walkStats.errors = Cardinality(ErrorPos(delivered))

\* a walk that ended with a file to process, a skipped file and an error
C39_Witness ==
    /\ generator = "done"
    /\ walkStats.toProcess >= 1
    /\ walkStats.skippedMP3 + walkStats.skippedSRT >= 1
    /\ walkStats.errors >= 1

\* C40: jobs are started in the order they were added (job ids are given
\* in the order of the adds): when onJobStart is emitted for a job, no job
\* added after it has been started, neither in an earlier step nor
\* earlier in the same handler.
C40_StartedInOrder ==
    [][\A a, b \in JobId :
          a < b /\ Emitted(handlerLog', <<"onJobStart", a>>) =>
              /\ Started(b) = 0
              /\ ~EmittedBefore(handlerLog', <<"onJobStart", b>>,
                                <<"onJobStart", a>>)]_vars

\* two jobs that were pending together have been started by one handler,
\* the one added first before the other
C40_Witness ==
    EmittedBefore(handlerLog, <<"onJobStart", 1>>, <<"onJobStart", 2>>)

====
